---- MODULE Spec2Model ----
(***************************************************************************)
(* Verification model of the PolymarketBTC15mAssistant decision core:      *)
(* the paper ledger (PaperTradingEngine), the per-strategy ledger          *)
(* (StrategyTracker), SessionState / RiskManager, the SignalAggregator and *)
(* the AllDayTrader polling loop.                                          *)
(*                                                                         *)
(* JavaScript numbers are modelled as exact rationals [n, d] in lowest     *)
(* terms (d > 0), so that sums, products, ratios and comparisons are the   *)
(* ones the code computes on the value grids used here.                    *)
(***************************************************************************)
EXTENDS Integers, Sequences, FiniteSets, TLC

VARIABLES
  engine,   \* PaperTradingEngine
  tracker,  \* StrategyTracker
  session,  \* SessionState
  agg,      \* SignalAggregator: collected signals
  trader,   \* AllDayTrader loop state
  now,      \* Date.now(), in minutes
  perf,     \* PerformanceTracker
  ret,      \* result of the last call
  obs       \* observation history used only to state properties

vars == <<engine, tracker, session, agg, trader, perf, now, ret, obs>>

----------------------------------------------------------------------------
(* Rational arithmetic                                                     *)

Abs(x) == IF x < 0 THEN -x ELSE x

RECURSIVE Gcd(_, _)
Gcd(a, b) == IF b = 0 THEN a ELSE Gcd(b, a % b)

Frac(num, den) ==
  IF num = 0 THEN [n |-> 0, d |-> 1]
  ELSE LET g == Gcd(Abs(num), den) IN [n |-> num \div g, d |-> den \div g]

Z(i) == [n |-> i, d |-> 1]
Pct(p) == Frac(p, 100)

FAdd(a, b) ==
  LET g == Gcd(a.d, b.d)
  IN  Frac(a.n * (b.d \div g) + b.n * (a.d \div g), (a.d \div g) * b.d)
FNeg(a) == [n |-> -a.n, d |-> a.d]
FSub(a, b) == FAdd(a, FNeg(b))
FMul(a, b) ==
  LET g1 == IF a.n = 0 THEN 1 ELSE Gcd(Abs(a.n), b.d)
      g2 == IF b.n = 0 THEN 1 ELSE Gcd(Abs(b.n), a.d)
  IN  Frac((a.n \div g1) * (b.n \div g2), (a.d \div g2) * (b.d \div g1))
FDiv(a, b) ==
  IF b.n > 0 THEN FMul(a, [n |-> b.d, d |-> b.n])
  ELSE FMul(a, [n |-> -b.d, d |-> -b.n])
FLt(a, b) == LET g == Gcd(a.d, b.d) IN a.n * (b.d \div g) < b.n * (a.d \div g)
FLe(a, b) == LET g == Gcd(a.d, b.d) IN a.n * (b.d \div g) <= b.n * (a.d \div g)
FGt(a, b) == FLt(b, a)
FGe(a, b) == FLe(b, a)
FMin(a, b) == IF FLt(b, a) THEN b ELSE a
FMax(a, b) == IF FGt(b, a) THEN b ELSE a

\* Math.round(x): floor(x + 1/2)
MathRound(x) == (2 * x.n + x.d) \div (2 * x.d)

\* Math.round(x * 100) / 100
Round2(x) == Frac(MathRound(FMul(x, Z(100))), 100)

RECURSIVE SumFrac(_)
SumFrac(s) ==
  IF s = << >> THEN Z(0) ELSE FAdd(SumFrac(SubSeq(s, 1, Len(s) - 1)), s[Len(s)])

\* arr.reduce((sum, e) => sum + F(e), 0)
SumSeq(s, F(_)) == SumFrac([i \in 1..Len(s) |-> F(s[i])])

RemoveAt(s, i) == SubSeq(s, 1, i - 1) \o SubSeq(s, i + 1, Len(s))

\* arr.findIndex(pred): 0 when absent (JavaScript's -1)
FindIndex(s, P(_)) ==
  IF \E i \in 1..Len(s) : P(s[i])
  THEN CHOOSE i \in 1..Len(s) : P(s[i]) /\ \A j \in 1..(i - 1) : ~P(s[j])
  ELSE 0

----------------------------------------------------------------------------
(* Input domains                                                           *)

Sides == {"UP", "DOWN"}
Strategies == {"MACD", "MOMENTUM"}
Markets == {"M1", "M2"}

\* ledger operations (opens plus closing records) in one run
MaxOps == 4

None == [op |-> "none"]

----------------------------------------------------------------------------
(* PaperTradingEngine                                                      *)

InitialBalance == Z(500)
MinRiskPercent == Pct(2)
MaxRiskPercent == Pct(5)
MaxPositionPercent == Pct(15)
EngineMaxTotalExposure == Pct(50)

EngineStats0 ==
  [totalTrades |-> 0, wins |-> 0, losses |-> 0, totalPnL |-> Z(0),
   maxDrawdown |-> Z(0), peakBalance |-> InitialBalance,
   winStreak |-> 0, loseStreak |-> 0, currentStreak |-> 0,
   lastStreakType |-> "null", byStrategy |-> << >>]

Engine0 ==
  [initialBalance |-> InitialBalance, balance |-> InitialBalance,
   positions |-> << >>, closedTrades |-> << >>, tradeIdCounter |-> 0,
   stats |-> EngineStats0]

PosSize(p) == p.size
TradePnl(t) == t.pnl

getAccountState(e) ==
  LET totalExposure == SumSeq(e.positions, PosSize)
  IN  [balance |-> e.balance,
       availableBalance |-> FSub(e.balance, totalExposure),
       totalExposure |-> totalExposure,
       openPositions |-> Len(e.positions)]

\* byStrategy[name] || { wins: 0, losses: 0 }
StratStatsOrZero(stats, name) ==
  IF name \in DOMAIN stats.byStrategy THEN stats.byStrategy[name]
  ELSE [wins |-> 0, losses |-> 0, totalPnL |-> Z(0)]

calculateBetSize(e, confidence, strategyName) ==
  LET account == getAccountState(e)
      confidenceNormalized ==
        FMax(Z(0), FMin(Z(1), FMul(FSub(confidence, Pct(50)), Z(2))))
      baseRiskPercent ==
        FAdd(MinRiskPercent,
             FMul(FSub(MaxRiskPercent, MinRiskPercent), confidenceNormalized))
      strategyStats == StratStatsOrZero(e.stats, strategyName)
      strategyTrades == strategyStats.wins + strategyStats.losses
      performanceMultiplier ==
        IF strategyTrades >= 5
        THEN LET winRate == Frac(strategyStats.wins, strategyTrades)
             IN  FMax(Pct(50), FMin(Pct(150),
                   FAdd(Pct(50), FMul(FSub(winRate, Pct(30)), Frac(5, 2)))))
        ELSE Z(1)
      drawdownMultiplier ==
        IF e.stats.currentStreak < 0 /\ e.stats.lastStreakType = "lose"
        THEN FMax(Pct(50), FSub(Z(1), FMul(Z(Abs(e.stats.currentStreak)), Pct(10))))
        ELSE Z(1)
      adjustedRiskPercent ==
        FMul(FMul(baseRiskPercent, performanceMultiplier), drawdownMultiplier)
      bet0 == FMul(e.balance, adjustedRiskPercent)
      maxPositionSize == FMul(e.balance, MaxPositionPercent)
      bet1 == FMin(bet0, maxPositionSize)
      currentExposure == SumSeq(e.positions, PosSize)
      maxNewExposure == FSub(FMul(e.balance, EngineMaxTotalExposure), currentExposure)
      bet2 == FMin(bet1, maxNewExposure)
      bet3 == FMin(bet2, account.availableBalance)
      bet4 == FMax(bet3, Z(1))
  IN  [betSize |-> Round2(bet4),
       riskPercent |-> FMul(adjustedRiskPercent, Z(100)),
       confidenceNormalized |-> confidenceNormalized,
       performanceMultiplier |-> performanceMultiplier,
       drawdownMultiplier |-> drawdownMultiplier]

\* peak / drawdown / win-loss / streak / per-strategy bookkeeping shared by
\* closePosition and closePositionEarly
UpdateStatsOnClose(stats, newBalance, pnl, won, strategyName) ==
  LET peak == IF FGt(newBalance, stats.peakBalance) THEN newBalance ELSE stats.peakBalance
      currentDrawdown == FDiv(FSub(peak, newBalance), peak)
      maxDD == IF FGt(currentDrawdown, stats.maxDrawdown) THEN currentDrawdown
               ELSE stats.maxDrawdown
      kind == IF won THEN "win" ELSE "lose"
      streak == IF stats.lastStreakType = kind THEN stats.currentStreak + 1 ELSE 1
      old == StratStatsOrZero(stats, strategyName)
      strat == [wins |-> old.wins + (IF won THEN 1 ELSE 0),
                losses |-> old.losses + (IF won THEN 0 ELSE 1),
                totalPnL |-> FAdd(old.totalPnL, pnl)]
  IN  [totalTrades |-> stats.totalTrades + 1,
       wins |-> stats.wins + (IF won THEN 1 ELSE 0),
       losses |-> stats.losses + (IF won THEN 0 ELSE 1),
       totalPnL |-> FAdd(stats.totalPnL, pnl),
       maxDrawdown |-> maxDD,
       peakBalance |-> peak,
       winStreak |-> IF won /\ streak > stats.winStreak THEN streak ELSE stats.winStreak,
       loseStreak |-> IF ~won /\ streak > stats.loseStreak THEN streak ELSE stats.loseStreak,
       currentStreak |-> streak,
       lastStreakType |-> kind,
       byStrategy |-> [s \in (DOMAIN stats.byStrategy) \cup {strategyName} |->
                         IF s = strategyName THEN strat ELSE stats.byStrategy[s]]]

\* the balance update written with the sign of pnl reversed
BalanceAfterReversed(balance, pnl) == FSub(balance, pnl)

\* this.balance += pnl
BalanceAfter(balance, pnl) == FAdd(balance, pnl)

\* a not-found result that reports success
NotFoundSilent == [success |-> TRUE, error |-> "Position not found"]

NotFound == [success |-> FALSE, error |-> "Position not found"]

\* openPosition testing the size against the balance, open positions not deducted
openPositionAgainstBalance(e, strategyName, side, entryPrice, size, marketId) ==
  IF FGt(size, e.balance)
  THEN [eng |-> e, res |-> [success |-> FALSE, error |-> "Insufficient balance"]]
  ELSE IF FLe(size, Z(0))
  THEN [eng |-> e, res |-> [success |-> FALSE, error |-> "Invalid size"]]
  ELSE LET tradeId == e.tradeIdCounter + 1
           position == [tradeId |-> tradeId, strategyName |-> strategyName,
                        side |-> side, entryPrice |-> entryPrice, size |-> size,
                        marketId |-> marketId, scaledOutPercent |-> Z(0),
                        status |-> "OPEN"]
       IN  [eng |-> [e EXCEPT !.tradeIdCounter = tradeId,
                              !.positions = Append(@, position)],
            res |-> [success |-> TRUE, tradeId |-> tradeId]]

\* engine.openPosition(params): the new engine and the call's result
openPosition(e, strategyName, side, entryPrice, size, marketId) ==
  IF FGt(size, getAccountState(e).availableBalance)
  THEN [eng |-> e, res |-> [success |-> FALSE, error |-> "Insufficient balance"]]
  ELSE IF FLe(size, Z(0))
  THEN [eng |-> e, res |-> [success |-> FALSE, error |-> "Invalid size"]]
  ELSE LET tradeId == e.tradeIdCounter + 1
           position == [tradeId |-> tradeId, strategyName |-> strategyName,
                        side |-> side, entryPrice |-> entryPrice, size |-> size,
                        marketId |-> marketId, scaledOutPercent |-> Z(0),
                        status |-> "OPEN"]
       IN  [eng |-> [e EXCEPT !.tradeIdCounter = tradeId,
                              !.positions = Append(@, position)],
            res |-> [success |-> TRUE, tradeId |-> tradeId]]

\* closePosition paying a winner (1 - entryPrice) * size
closePositionFaceValue(e, tradeId, outcome, exitPrice) ==
  LET HasId(p) == p.tradeId = tradeId
      positionIndex == FindIndex(e.positions, HasId)
  IN  IF positionIndex = 0 THEN [eng |-> e, res |-> NotFound]
      ELSE
        LET position == e.positions[positionIndex]
            won == position.side = outcome
            pnl == IF won
                   THEN FMul(position.size, FSub(Z(1), position.entryPrice))
                   ELSE FNeg(position.size)
            newBalance == BalanceAfter(e.balance, pnl)
            closedTrade == [tradeId |-> tradeId, strategyName |-> position.strategyName,
                            exitPrice |-> exitPrice,
                            pnl |-> pnl, won |-> won, status |-> "CLOSED"]
        IN  [eng |-> [e EXCEPT !.balance = newBalance,
                               !.stats = UpdateStatsOnClose(e.stats, newBalance, pnl, won,
                                                            position.strategyName),
                               !.closedTrades = Append(@, closedTrade),
                               !.positions = RemoveAt(@, positionIndex)],
             res |-> [success |-> TRUE, trade |-> closedTrade, pnl |-> pnl,
                      won |-> won, newBalance |-> newBalance]]

closePosition(e, tradeId, outcome, exitPrice) ==
  LET HasId(p) == p.tradeId = tradeId
      positionIndex == FindIndex(e.positions, HasId)
  IN  IF positionIndex = 0 THEN [eng |-> e, res |-> NotFound]
      ELSE
        LET position == e.positions[positionIndex]
            won == position.side = outcome
            pnl == IF won
                   THEN FMul(position.size, FSub(FDiv(Z(1), position.entryPrice), Z(1)))
                   ELSE FNeg(position.size)
            newBalance == BalanceAfter(e.balance, pnl)
            closedTrade == [tradeId |-> tradeId, strategyName |-> position.strategyName,
                            exitPrice |-> exitPrice,
                            pnl |-> pnl, won |-> won, status |-> "CLOSED"]
        IN  [eng |-> [e EXCEPT !.balance = newBalance,
                               !.stats = UpdateStatsOnClose(e.stats, newBalance, pnl, won,
                                                            position.strategyName),
                               !.closedTrades = Append(@, closedTrade),
                               !.positions = RemoveAt(@, positionIndex)],
             res |-> [success |-> TRUE, trade |-> closedTrade, pnl |-> pnl,
                      won |-> won, newBalance |-> newBalance]]

RECURSIVE CloseEach(_, _, _, _)
\* for (const position of marketPositions) results.push(this.closePosition(...))
CloseEach(e, ids, outcome, exitPrice) ==
  IF ids = << >> THEN [eng |-> e, res |-> << >>]
  ELSE LET one == closePosition(e, Head(ids), outcome, exitPrice)
           rest == CloseEach(one.eng, Tail(ids), outcome, exitPrice)
       IN  [eng |-> rest.eng, res |-> <<one.res>> \o rest.res]

closeAllForMarket(e, marketId, outcome, exitPrice) ==
  LET OnMarket(p) == p.marketId = marketId
      marketPositions == SelectSeq(e.positions, OnMarket)
      ids == [i \in 1..Len(marketPositions) |-> marketPositions[i].tradeId]
  IN  CloseEach(e, ids, outcome, exitPrice)

closePositionEarly(e, tradeId, currentSharePrice, reason) ==
  LET HasId(p) == p.tradeId = tradeId
      positionIndex == FindIndex(e.positions, HasId)
  IN  IF positionIndex = 0 THEN [eng |-> e, res |-> NotFound]
      ELSE
        LET position == e.positions[positionIndex]
            shares == FDiv(position.size, position.entryPrice)
            pnl == FMul(FSub(currentSharePrice, position.entryPrice), shares)
            won == FGt(pnl, Z(0))
            newBalance == BalanceAfter(e.balance, pnl)
            closedTrade == [tradeId |-> tradeId, strategyName |-> position.strategyName,
                            exitPrice |-> currentSharePrice, pnl |-> pnl, won |-> won,
                            status |-> "CLOSED", exitReason |-> reason]
        IN  [eng |-> [e EXCEPT !.balance = newBalance,
                               !.stats = UpdateStatsOnClose(e.stats, newBalance, pnl, won,
                                                            position.strategyName),
                               !.closedTrades = Append(@, closedTrade),
                               !.positions = RemoveAt(@, positionIndex)],
             res |-> [success |-> TRUE, trade |-> closedTrade, pnl |-> pnl,
                      won |-> won, newBalance |-> newBalance, exitReason |-> reason]]

scaleOutPosition(e, tradeId, percentage, currentSharePrice, reason) ==
  LET HasId(p) == p.tradeId = tradeId
      idx == FindIndex(e.positions, HasId)
  IN  IF idx = 0 THEN [eng |-> e, res |-> NotFound]
      ELSE IF FLe(percentage, Z(0)) \/ FGt(percentage, Z(1))
      THEN [eng |-> e, res |-> [success |-> FALSE, error |-> "Invalid percentage"]]
      ELSE
        LET position == e.positions[idx]
            closeSize == FMul(position.size, percentage)
            remainingSize == FSub(position.size, closeSize)
            closedShares == FDiv(closeSize, position.entryPrice)
            pnl == FMul(FSub(currentSharePrice, position.entryPrice), closedShares)
            won == FGt(pnl, Z(0))
            newBalance == BalanceAfter(e.balance, pnl)
            st == e.stats
            peak == IF FGt(newBalance, st.peakBalance) THEN newBalance ELSE st.peakBalance
            currentDrawdown == FDiv(FSub(peak, newBalance), peak)
            old == StratStatsOrZero(st, position.strategyName)
            newStats ==
              [st EXCEPT !.peakBalance = peak,
                         !.maxDrawdown = IF FGt(currentDrawdown, @) THEN currentDrawdown ELSE @,
                         !.totalPnL = FAdd(@, pnl),
                         !.byStrategy =
                            [s \in (DOMAIN st.byStrategy) \cup {position.strategyName} |->
                               IF s = position.strategyName
                               THEN [old EXCEPT !.totalPnL = FAdd(@, pnl)]
                               ELSE st.byStrategy[s]]]
            scaleRecord == [tradeId |-> tradeId, strategyName |-> position.strategyName,
                            exitPrice |-> currentSharePrice, closedSize |-> closeSize,
                            remainingSize |-> remainingSize, pnl |-> pnl, won |-> won,
                            reason |-> reason, status |-> "PARTIAL_CLOSE"]
        IN  [eng |-> [e EXCEPT !.balance = newBalance,
                               !.stats = newStats,
                               !.positions[idx].size = remainingSize,
                               !.positions[idx].scaledOutPercent = FAdd(@, percentage),
                               !.closedTrades = Append(@, scaleRecord)],
             res |-> [success |-> TRUE, pnl |-> pnl, won |-> won,
                      closedSize |-> closeSize, remainingSize |-> remainingSize,
                      newBalance |-> newBalance, exitReason |-> reason]]

----------------------------------------------------------------------------
(* ALL_DAY_CONFIG.risk                                                     *)

DailyLossLimit == Pct(10)
MaxDailyTrades == 100
MaxSinglePosition == Pct(15)
MaxTotalExposure == Pct(50)
MinBetSize == Z(5)
MaxBetSize == Z(50)
CorrelationPenalty == Pct(20)
DrawdownScalingEnabled == TRUE
DrawdownThresholds ==
  << [drawdown |-> Pct(5), sizeMultiplier |-> Pct(80)],
     [drawdown |-> Pct(8), sizeMultiplier |-> Pct(50)],
     [drawdown |-> Pct(10), sizeMultiplier |-> Z(0)] >>
ConsecutiveLossLimit == 5
CooldownAfterHalt == 30

----------------------------------------------------------------------------
(* SessionState                                                            *)

NoTime == -1

DailyLossReason == "Daily loss limit reached"
ConsecutiveReason == "Consecutive loss limit reached"
MaxTradesReason == "Max daily trades reached"
DrawdownReason == "Max drawdown reached"

\* reason texts handed to triggerEmergencyStop, and the haltReason it builds from
\* them, `EMERGENCY: ${reason}`
EmergencyTexts == {"Feed down", "Consecutive fetch failures"}
EmergencyReason(reason) ==
  CASE reason = "Feed down" -> "EMERGENCY: Feed down"
    [] reason = "Consecutive fetch failures" -> "EMERGENCY: Consecutive fetch failures"

\* haltReason?.includes('Consecutive'): the halt reasons holding that substring
IncludesConsecutive(reason) ==
  reason \in {ConsecutiveReason, "EMERGENCY: Consecutive fetch failures"}

\* SessionState.reset()
SessionReset(initialBalance) ==
  [initialBalance |-> initialBalance, balance |-> initialBalance,
   peakBalance |-> initialBalance, dailyPnL |-> Z(0), realizedPnL |-> Z(0),
   maxDrawdown |-> Z(0), currentDrawdown |-> Z(0),
   tradesExecuted |-> 0, tradesWon |-> 0, tradesLost |-> 0,
   consecutiveLosses |-> 0, consecutiveWins |-> 0,
   tradingHalted |-> FALSE, haltReason |-> "null", haltTime |-> NoTime,
   strategyStats |-> << >>,
   marketsTraded |-> {}, currentMarket |-> "null", currentMarketStartPrice |-> Z(0)]

\* SessionState.onNewMarket(market, startPrice); a market is kept as its id
onNewMarket(s, marketId, startPrice) ==
  [s EXCEPT !.marketsTraded = IF s.currentMarket # "null" /\ s.currentMarket # marketId
                              THEN @ \cup {s.currentMarket} ELSE @,
            !.currentMarket = marketId,
            !.currentMarketStartPrice = startPrice]

\* updateBalance keeping the latest drawdown as maxDrawdown
updateBalanceLatestDrawdown(s, pnl) ==
  LET balance == FAdd(s.balance, pnl)
      peak == IF FGt(balance, s.peakBalance) THEN balance ELSE s.peakBalance
      currentDrawdown == FDiv(FSub(peak, balance), peak)
  IN  [s EXCEPT !.balance = balance,
                !.dailyPnL = FAdd(@, pnl),
                !.realizedPnL = FAdd(@, pnl),
                !.peakBalance = peak,
                !.currentDrawdown = currentDrawdown,
                !.maxDrawdown = currentDrawdown]

updateBalance(s, pnl) ==
  LET balance == FAdd(s.balance, pnl)
      peak == IF FGt(balance, s.peakBalance) THEN balance ELSE s.peakBalance
      currentDrawdown == FDiv(FSub(peak, balance), peak)
  IN  [s EXCEPT !.balance = balance,
                !.dailyPnL = FAdd(@, pnl),
                !.realizedPnL = FAdd(@, pnl),
                !.peakBalance = peak,
                !.currentDrawdown = currentDrawdown,
                !.maxDrawdown = IF FGt(currentDrawdown, @) THEN currentDrawdown ELSE @]

halt(s, reason, t) ==
  [s EXCEPT !.tradingHalted = TRUE, !.haltReason = reason, !.haltTime = t]

\* thresholds.find(t => t.sizeMultiplier === 0): its index, 0 when there is none
HardStopIndex ==
  LET IsStop(th) == th.sizeMultiplier = Z(0) IN FindIndex(DrawdownThresholds, IsStop)

\* the reason checkHaltConditions halts with, "null" when it does not halt
HaltCondition(s) ==
  LET dailyLossPercent == FDiv(FNeg(s.dailyPnL), s.initialBalance)
  IN  IF FGe(dailyLossPercent, DailyLossLimit) THEN DailyLossReason
      ELSE IF s.consecutiveLosses >= ConsecutiveLossLimit THEN ConsecutiveReason
      ELSE IF s.tradesExecuted >= MaxDailyTrades THEN MaxTradesReason
      ELSE IF HardStopIndex # 0
              /\ FGe(s.currentDrawdown, DrawdownThresholds[HardStopIndex].drawdown)
           THEN DrawdownReason
      ELSE "null"

checkHaltConditions(s, t) ==
  IF HaltCondition(s) = "null" THEN s ELSE halt(s, HaltCondition(s), t)

StratSessOrZero(s, name) ==
  IF name \in DOMAIN s.strategyStats THEN s.strategyStats[name]
  ELSE [trades |-> 0, wins |-> 0, losses |-> 0, pnl |-> Z(0)]

\* recordTrade leaving the opposite streak counter as it was
recordTradeKeepStreaks(s, trade, t) ==
  LET s1 == [s EXCEPT !.tradesExecuted = @ + 1,
                      !.tradesWon = @ + (IF trade.won THEN 1 ELSE 0),
                      !.tradesLost = @ + (IF trade.won THEN 0 ELSE 1),
                      !.consecutiveWins = IF trade.won THEN @ + 1 ELSE @,
                      !.consecutiveLosses = IF trade.won THEN @ ELSE @ + 1]
      s2 == IF trade.pnl # Z(0) THEN updateBalance(s1, trade.pnl) ELSE s1
  IN  checkHaltConditions(s2, t)

\* SessionState.recordTrade(trade), called at time t
recordTrade(s, trade, t) ==
  LET old == StratSessOrZero(s, trade.strategyName)
      strat == [trades |-> old.trades + 1,
                wins |-> old.wins + (IF trade.won THEN 1 ELSE 0),
                losses |-> old.losses + (IF trade.won THEN 0 ELSE 1),
                pnl |-> FAdd(old.pnl, trade.pnl)]
      s1 == [s EXCEPT !.tradesExecuted = @ + 1,
                      !.tradesWon = @ + (IF trade.won THEN 1 ELSE 0),
                      !.tradesLost = @ + (IF trade.won THEN 0 ELSE 1),
                      !.consecutiveWins = IF trade.won THEN @ + 1 ELSE 0,
                      !.consecutiveLosses = IF trade.won THEN 0 ELSE @ + 1,
                      !.strategyStats =
                         [n \in (DOMAIN s.strategyStats) \cup {trade.strategyName} |->
                            IF n = trade.strategyName THEN strat ELSE s.strategyStats[n]]]
      s2 == IF trade.pnl # Z(0) THEN updateBalance(s1, trade.pnl) ELSE s1
  IN  checkHaltConditions(s2, t)

\* SessionState.canTrade() clearing a consecutive-loss halt whatever time has passed
SessionCanTradeNoCooldown(s, t) ==
  IF ~s.tradingHalted THEN [sess |-> s, value |-> TRUE]
  ELSE IF IncludesConsecutive(s.haltReason)
  THEN [sess |-> [s EXCEPT !.tradingHalted = FALSE, !.haltReason = "null",
                           !.haltTime = NoTime, !.consecutiveLosses = 0],
        value |-> TRUE]
  ELSE [sess |-> s, value |-> FALSE]

\* SessionState.canTrade() at time t: the session afterwards and the value returned
SessionCanTrade(s, t) ==
  IF ~s.tradingHalted THEN [sess |-> s, value |-> TRUE]
  ELSE IF s.haltTime # NoTime /\ (t - s.haltTime) >= CooldownAfterHalt
          /\ IncludesConsecutive(s.haltReason)
  THEN [sess |-> [s EXCEPT !.tradingHalted = FALSE, !.haltReason = "null",
                           !.haltTime = NoTime, !.consecutiveLosses = 0],
        value |-> TRUE]
  ELSE [sess |-> s, value |-> FALSE]

----------------------------------------------------------------------------
(* RiskManager                                                             *)

isDailyLossLimitHit(s) == FGe(FDiv(FNeg(s.dailyPnL), s.initialBalance), DailyLossLimit)

isConsecutiveLossLimitHit(s) == s.consecutiveLosses >= ConsecutiveLossLimit

\* RiskManager.canTrade() at time t
RiskCanTrade(s, t) ==
  LET r == SessionCanTrade(s, t)
  IN  [sess |-> r.sess,
       value |-> /\ r.value
                 /\ ~isDailyLossLimitHit(r.sess)
                 /\ ~isConsecutiveLossLimitHit(r.sess)
                 /\ ~(r.sess.tradesExecuted >= MaxDailyTrades)]

\* RiskManager.triggerEmergencyStop(reason) at time t
triggerEmergencyStop(s, reason, t) == halt(s, EmergencyReason(reason), t)

RECURSIVE FirstThreshold(_, _)
\* for (const threshold of thresholds) if (drawdown >= threshold.drawdown) return ...
FirstThreshold(ths, drawdown) ==
  IF ths = << >> THEN Z(1)
  ELSE IF FGe(drawdown, Head(ths).drawdown) THEN Head(ths).sizeMultiplier
  ELSE FirstThreshold(Tail(ths), drawdown)

getDrawdownMultiplier(s) ==
  IF ~DrawdownScalingEnabled THEN Z(1)
  ELSE FirstThreshold(DrawdownThresholds, s.currentDrawdown)

checkExposureLimits(s, proposedSize, currentPositions) ==
  LET currentExposure == SumSeq(currentPositions, PosSize)
      maxTotalExposure == FMul(s.balance, MaxTotalExposure)
      availableExposure == FSub(maxTotalExposure, currentExposure)
      maxSingle == FMul(s.balance, MaxSinglePosition)
  IN  IF FGt(proposedSize, availableExposure)
      THEN [allowed |-> FALSE, reason |-> "max_total_exposure",
            maxAllowed |-> availableExposure]
      ELSE IF FGt(proposedSize, maxSingle)
      THEN [allowed |-> FALSE, reason |-> "max_single_position", maxAllowed |-> maxSingle]
      ELSE [allowed |-> TRUE, reason |-> "null",
            maxAllowed |-> FMin(availableExposure, maxSingle)]

getCorrelationMultiplier(side, currentPositions) ==
  IF \E i \in 1..Len(currentPositions) : currentPositions[i].side = side
  THEN FSub(Z(1), CorrelationPenalty)
  ELSE Z(1)

\* adjustPositionSize up to and including the exposure check (before min/max bet size)
SizeAfterExposureClamp(s, baseSize, side, currentPositions) ==
  LET a1 == FMul(baseSize, getDrawdownMultiplier(s))
      a2 == FMul(a1, getCorrelationMultiplier(side, currentPositions))
      exposureCheck == checkExposureLimits(s, a2, currentPositions)
  IN  IF ~exposureCheck.allowed THEN FMax(Z(0), exposureCheck.maxAllowed) ELSE a2

adjustPositionSize(s, baseSize, side, currentPositions) ==
  LET a3 == SizeAfterExposureClamp(s, baseSize, side, currentPositions)
      a4 == FMax(MinBetSize, a3)
      a5 == FMin(MaxBetSize, a4)
  IN  IF FLt(a5, MinBetSize) THEN Z(0) ELSE Round2(a5)

----------------------------------------------------------------------------
(* StrategyTracker: one independent account per strategy.  The CSV export  *)
(* (this.trades and the files) is not modelled.                            *)

TrackerInitialBalance == Z(500)

Tracker_account0(strategyName) ==
  [name |-> strategyName, balance |-> TrackerInitialBalance,
   initialBalance |-> TrackerInitialBalance,
   positions |-> << >>, closedTrades |-> << >>,
   stats |-> [totalTrades |-> 0, wins |-> 0, losses |-> 0, totalPnL |-> Z(0),
              maxDrawdown |-> Z(0), peakBalance |-> TrackerInitialBalance,
              consecutiveWins |-> 0, consecutiveLosses |-> 0,
              currentStreak |-> 0, lastStreakType |-> "null"]]

\* strategies is a Map: `order` is its insertion order, idCounter stands for the
\* unique suffix of the generated tradeId
Tracker_new == [strategies |-> << >>, order |-> << >>, idCounter |-> 0]

Tracker_initStrategy(t, strategyName) ==
  IF strategyName \in DOMAIN t.strategies THEN t
  ELSE [t EXCEPT !.strategies =
                    [n \in (DOMAIN t.strategies) \cup {strategyName} |->
                       IF n = strategyName THEN Tracker_account0(strategyName)
                       ELSE t.strategies[n]],
                 !.order = Append(@, strategyName)]

\* openPosition refusing only a second position of the same side on the market
Tracker_openPositionSameSide(t, strategyName, side, entryPrice, size, marketId) ==
  LET t1 == Tracker_initStrategy(t, strategyName)
      account == t1.strategies[strategyName]
      OnMarket(p) == p.marketId = marketId /\ p.side = side
  IN  IF FindIndex(account.positions, OnMarket) # 0
      THEN [trk |-> t1,
            res |-> [success |-> FALSE, error |-> "Already has position in this market"]]
      ELSE IF FGt(size, account.balance)
      THEN [trk |-> t1, res |-> [success |-> FALSE, error |-> "Insufficient balance"]]
      ELSE LET tradeId == t1.idCounter + 1
               position == [tradeId |-> tradeId, strategyName |-> strategyName,
                            side |-> side, entryPrice |-> entryPrice, size |-> size,
                            marketId |-> marketId, status |-> "OPEN"]
           IN  [trk |-> [t1 EXCEPT !.idCounter = tradeId,
                                   !.strategies[strategyName].positions =
                                       Append(@, position)],
                res |-> [success |-> TRUE, tradeId |-> tradeId]]

\* openPosition without the "Already has position in this market" check
Tracker_openPositionUnchecked(t, strategyName, side, entryPrice, size, marketId) ==
  LET t1 == Tracker_initStrategy(t, strategyName)
      account == t1.strategies[strategyName]
  IN  IF FGt(size, account.balance)
      THEN [trk |-> t1, res |-> [success |-> FALSE, error |-> "Insufficient balance"]]
      ELSE LET tradeId == t1.idCounter + 1
               position == [tradeId |-> tradeId, strategyName |-> strategyName,
                            side |-> side, entryPrice |-> entryPrice, size |-> size,
                            marketId |-> marketId, status |-> "OPEN"]
           IN  [trk |-> [t1 EXCEPT !.idCounter = tradeId,
                                   !.strategies[strategyName].positions =
                                       Append(@, position)],
                res |-> [success |-> TRUE, tradeId |-> tradeId]]

\* StrategyTracker.openPosition(strategyName, params)
Tracker_openPosition(t, strategyName, side, entryPrice, size, marketId) ==
  LET t1 == Tracker_initStrategy(t, strategyName)
      account == t1.strategies[strategyName]
      OnMarket(p) == p.marketId = marketId
  IN  IF FindIndex(account.positions, OnMarket) # 0
      THEN [trk |-> t1,
            res |-> [success |-> FALSE, error |-> "Already has position in this market"]]
      ELSE IF FGt(size, account.balance)
      THEN [trk |-> t1, res |-> [success |-> FALSE, error |-> "Insufficient balance"]]
      ELSE LET tradeId == t1.idCounter + 1
               position == [tradeId |-> tradeId, strategyName |-> strategyName,
                            side |-> side, entryPrice |-> entryPrice, size |-> size,
                            marketId |-> marketId, status |-> "OPEN"]
           IN  [trk |-> [t1 EXCEPT !.idCounter = tradeId,
                                   !.strategies[strategyName].positions =
                                       Append(@, position)],
                res |-> [success |-> TRUE, tradeId |-> tradeId]]

Tracker_statsOnClose(stats, newBalance, pnl, won) ==
  LET kind == IF won THEN "win" ELSE "loss"
      streak == IF stats.lastStreakType = kind THEN stats.currentStreak + 1 ELSE 1
      peak == IF FGt(newBalance, stats.peakBalance) THEN newBalance ELSE stats.peakBalance
      currentDrawdown == FDiv(FSub(peak, newBalance), peak)
      Max(a, b) == IF a > b THEN a ELSE b
  IN  [totalTrades |-> stats.totalTrades + 1,
       wins |-> stats.wins + (IF won THEN 1 ELSE 0),
       losses |-> stats.losses + (IF won THEN 0 ELSE 1),
       totalPnL |-> FAdd(stats.totalPnL, pnl),
       maxDrawdown |-> IF FGt(currentDrawdown, stats.maxDrawdown)
                       THEN currentDrawdown ELSE stats.maxDrawdown,
       peakBalance |-> peak,
       consecutiveWins |-> IF won THEN Max(stats.consecutiveWins, streak)
                           ELSE stats.consecutiveWins,
       consecutiveLosses |-> IF won THEN stats.consecutiveLosses
                             ELSE Max(stats.consecutiveLosses, streak),
       currentStreak |-> streak,
       lastStreakType |-> kind]

\* StrategyTracker.closePosition(strategyName, tradeId, closeParams)
Tracker_closePosition(t, strategyName, tradeId, exitPrice, exitReason, outcome) ==
  IF strategyName \notin DOMAIN t.strategies
  THEN [trk |-> t, res |-> [success |-> FALSE, error |-> "Strategy not found"]]
  ELSE
    LET account == t.strategies[strategyName]
        HasId(p) == p.tradeId = tradeId
        positionIndex == FindIndex(account.positions, HasId)
    IN  IF positionIndex = 0 THEN [trk |-> t, res |-> NotFound]
        ELSE
          LET position == account.positions[positionIndex]
              won == IF exitReason = "RESOLUTION" THEN position.side = outcome
                     ELSE FGt(FMul(FSub(exitPrice, position.entryPrice),
                                   FDiv(position.size, position.entryPrice)), Z(0))
              pnl == IF exitReason = "RESOLUTION"
                     THEN (IF won
                           THEN FMul(position.size,
                                     FSub(FDiv(Z(1), position.entryPrice), Z(1)))
                           ELSE FNeg(position.size))
                     ELSE FMul(FSub(exitPrice, position.entryPrice),
                               FDiv(position.size, position.entryPrice))
              newBalance == FAdd(account.balance, pnl)
              closedTrade == [tradeId |-> tradeId, strategyName |-> strategyName,
                              marketId |-> position.marketId, exitPrice |-> exitPrice,
                              exitReason |-> exitReason, pnl |-> pnl, won |-> won,
                              balanceAfter |-> newBalance, status |-> "CLOSED"]
          IN  [trk |-> [t EXCEPT
                          !.strategies[strategyName] =
                             [account EXCEPT
                                !.balance = newBalance,
                                !.stats = Tracker_statsOnClose(@, newBalance, pnl, won),
                                !.closedTrades = Append(@, closedTrade),
                                !.positions = RemoveAt(@, positionIndex)]],
               res |-> [success |-> TRUE, strategyName |-> strategyName,
                        trade |-> closedTrade, pnl |-> pnl, won |-> won,
                        newBalance |-> newBalance]]

RECURSIVE Tracker_closeEach(_, _, _)
\* the two nested loops of closeAllForMarket over a list of positions to close
Tracker_closeEach(t, todo, outcome) ==
  IF todo = << >> THEN [trk |-> t, res |-> << >>]
  ELSE LET p == Head(todo)
           one == Tracker_closePosition(t, p.strategyName, p.tradeId,
                                        IF outcome = p.side THEN Z(1) ELSE Z(0),
                                        "RESOLUTION", outcome)
           rest == Tracker_closeEach(one.trk, Tail(todo), outcome)
       IN  [trk |-> rest.trk, res |-> <<one.res>> \o rest.res]

RECURSIVE Tracker_marketPositions(_, _, _)
\* the positions on marketId, account by account in the Map's order
Tracker_marketPositions(t, names, marketId) ==
  IF names = << >> THEN << >>
  ELSE LET OnMarket(p) == p.marketId = marketId
       IN  SelectSeq(t.strategies[Head(names)].positions, OnMarket)
             \o Tracker_marketPositions(t, Tail(names), marketId)

\* StrategyTracker.closeAllForMarket(marketId, outcome, btcPriceAtResolution)
Tracker_closeAllForMarket(t, marketId, outcome) ==
  Tracker_closeEach(t, Tracker_marketPositions(t, t.order, marketId), outcome)

\* StrategyTracker.getPosition(strategyName, marketId): None when there is none
Tracker_getPosition(t, strategyName, marketId) ==
  IF strategyName \notin DOMAIN t.strategies THEN None
  ELSE LET OnMarket(p) == p.marketId = marketId
           idx == FindIndex(t.strategies[strategyName].positions, OnMarket)
       IN  IF idx = 0 THEN None ELSE t.strategies[strategyName].positions[idx]

RECURSIVE Tracker_positionsOf(_, _)
Tracker_positionsOf(t, names) ==
  IF names = << >> THEN << >>
  ELSE t.strategies[Head(names)].positions \o Tracker_positionsOf(t, Tail(names))

\* StrategyTracker.getAllPositions()
Tracker_getAllPositions(t) == Tracker_positionsOf(t, t.order)

----------------------------------------------------------------------------
(* ALL_DAY_CONFIG.signals, .performance, .regimeRouting; strategy classes   *)

MinStrategiesToTrade == 1
ConflictThreshold == Pct(40)
MinConfidence == Pct(55)
AgreementBonus == Pct(2)
MaxConfidence == Pct(90)

WindowSize == 20
MinTradesForWeighting == 5
DefaultWeight == Z(1)
WeightRange == << Frac(1, 2), Frac(3, 2) >>

Regimes == {"TREND_UP", "TREND_DOWN", "RANGE", "CHOP"}

RoutingConfig(regime) ==
  CASE regime \in {"TREND_UP", "TREND_DOWN"} ->
         [enabled |-> {"MOMENTUM", "MACD", "VOLATILITY_BREAKOUT", "TREND_CONFIRM",
                       "VOLUME_PROFILE", "EMA_CROSS", "ORB"},
          disabled |-> {"MEAN_REVERSION", "LIQ_SWEEP"},
          confidenceBoost |-> [n \in {"MOMENTUM", "TREND_CONFIRM", "EMA_CROSS"} |-> Pct(5)]]
    [] regime = "CHOP" ->
         [enabled |-> {"RSI", "PRICE_ACTION", "LIQ_SWEEP"},
          disabled |-> {"MOMENTUM", "VOLATILITY_BREAKOUT", "MEAN_REVERSION",
                        "TREND_CONFIRM", "EMA_CROSS", "ORB"},
          confidenceBoost |-> [n \in {"LIQ_SWEEP"} |-> Pct(3)]]
    [] OTHER ->
         [enabled |-> {"MEAN_REVERSION", "RSI", "MACD", "PRICE_ACTION", "VOLUME_PROFILE",
                       "SR_FLIP", "LIQ_SWEEP"},
          disabled |-> {"MOMENTUM", "TREND_CONFIRM", "EMA_CROSS"},
          confidenceBoost |-> [n \in {"MEAN_REVERSION", "PRICE_ACTION", "SR_FLIP", "LIQ_SWEEP"} |->
                                 IF n = "PRICE_ACTION" THEN Pct(3) ELSE Pct(5)]]

\* the regimeCompatibility each strategy class passes to BaseStrategy
RegimeCompatibility(strategyName) ==
  CASE strategyName \in {"MACD", "ORB", "VOLUME_PROFILE", "SR_FLIP", "PRICE_ACTION",
                         "LIQ_SWEEP"} -> {"TREND_UP", "TREND_DOWN", "RANGE"}
    [] strategyName \in {"MOMENTUM", "VOLATILITY_BREAKOUT", "TREND_CONFIRM",
                         "EMA_CROSS"} -> {"TREND_UP", "TREND_DOWN"}
    [] strategyName = "MEAN_REVERSION" -> {"RANGE"}
    [] OTHER -> Regimes

----------------------------------------------------------------------------
(* RegimeRouter                                                            *)

isStrategyEnabled(strategyName, regime) ==
  LET config == RoutingConfig(regime)
  IN  IF strategyName \in config.disabled THEN FALSE
      ELSE IF config.enabled # {} THEN strategyName \in config.enabled
      ELSE TRUE

getConfidenceBoost(strategyName, regime) ==
  LET config == RoutingConfig(regime)
  IN  IF strategyName \in DOMAIN config.confidenceBoost
      THEN config.confidenceBoost[strategyName] ELSE Z(0)

\* filterStrategies over a list of strategy names
filterStrategies(strategies, regime) ==
  LET Keep(n) == regime \in RegimeCompatibility(n) /\ isStrategyEnabled(n, regime)
  IN  SelectSeq(strategies, Keep)

adjustSignal(signal, strategyName, regime) ==
  LET boost == getConfidenceBoost(strategyName, regime)
  IN  [side |-> signal.side,
       confidence |-> FMin(MaxConfidence, FAdd(signal.confidence, boost)),
       regimeBoost |-> boost]

----------------------------------------------------------------------------
(* PerformanceTracker: a trade of the rolling window is kept as its `won`  *)

Perf_history0 == [trades |-> << >>, totalTrades |-> 0, wins |-> 0, losses |-> 0,
                  totalPnL |-> Z(0)]

Perf_new ==
  [strategyHistory |->
     [n \in {"MOMENTUM", "MEAN_REVERSION", "VOLATILITY_BREAKOUT", "RSI", "MACD"} |->
        Perf_history0]]

\* recordOutcome dropping the newest trade when the window is full
Perf_recordOutcomeKeepOldest(p, strategyName, won, pnl) ==
  LET old == IF strategyName \in DOMAIN p.strategyHistory
             THEN p.strategyHistory[strategyName] ELSE Perf_history0
      pushed == Append(old.trades, won)
      new == [trades |-> IF Len(pushed) > WindowSize
                         THEN SubSeq(pushed, 1, WindowSize) ELSE pushed,
              totalTrades |-> old.totalTrades + 1,
              wins |-> old.wins + (IF won THEN 1 ELSE 0),
              losses |-> old.losses + (IF won THEN 0 ELSE 1),
              totalPnL |-> FAdd(old.totalPnL, pnl)]
  IN  [p EXCEPT !.strategyHistory =
                   [n \in (DOMAIN p.strategyHistory) \cup {strategyName} |->
                      IF n = strategyName THEN new ELSE p.strategyHistory[n]]]

Perf_recordOutcome(p, strategyName, won, pnl) ==
  LET old == IF strategyName \in DOMAIN p.strategyHistory
             THEN p.strategyHistory[strategyName] ELSE Perf_history0
      pushed == Append(old.trades, won)
      new == [trades |-> IF Len(pushed) > WindowSize THEN Tail(pushed) ELSE pushed,
              totalTrades |-> old.totalTrades + 1,
              wins |-> old.wins + (IF won THEN 1 ELSE 0),
              losses |-> old.losses + (IF won THEN 0 ELSE 1),
              totalPnL |-> FAdd(old.totalPnL, pnl)]
  IN  [p EXCEPT !.strategyHistory =
                   [n \in (DOMAIN p.strategyHistory) \cup {strategyName} |->
                      IF n = strategyName THEN new ELSE p.strategyHistory[n]]]

Perf_getWinRate(p, strategyName) ==
  IF strategyName \notin DOMAIN p.strategyHistory
     \/ Len(p.strategyHistory[strategyName].trades) = 0
  THEN Frac(1, 2)
  ELSE LET trades == p.strategyHistory[strategyName].trades
           IsWin(w) == w
       IN  Frac(Len(SelectSeq(trades, IsWin)), Len(trades))

\* getStrategyWeight without the minTradesForWeighting test
Perf_getStrategyWeightAnySample(p, strategyName) ==
  LET adjustment == FMul(FSub(Perf_getWinRate(p, strategyName), Frac(1, 2)), Z(2))
      weight == FAdd(DefaultWeight, FMul(adjustment, Frac(1, 2)))
  IN  FMax(WeightRange[1], FMin(WeightRange[2], weight))

Perf_getStrategyWeight(p, strategyName) ==
  IF strategyName \notin DOMAIN p.strategyHistory
     \/ Len(p.strategyHistory[strategyName].trades) < MinTradesForWeighting
  THEN DefaultWeight
  ELSE LET adjustment == FMul(FSub(Perf_getWinRate(p, strategyName), Frac(1, 2)), Z(2))
           weight == FAdd(DefaultWeight, FMul(adjustment, Frac(1, 2)))
       IN  FMax(WeightRange[1], FMin(WeightRange[2], weight))

----------------------------------------------------------------------------
(* SignalAggregator                                                        *)

NoSignal == [side |-> "null"]

Agg_new == [livePerformance |-> << >>]

updateLivePerformance(a, strategyName, won, pnl) ==
  LET old == IF strategyName \in DOMAIN a.livePerformance
             THEN a.livePerformance[strategyName]
             ELSE [trades |-> 0, wins |-> 0, losses |-> 0, pnl |-> Z(0)]
      new == [trades |-> old.trades + 1,
              wins |-> old.wins + (IF won THEN 1 ELSE 0),
              losses |-> old.losses + (IF won THEN 0 ELSE 1),
              pnl |-> FAdd(old.pnl, pnl)]
  IN  [a EXCEPT !.livePerformance =
                   [n \in (DOMAIN a.livePerformance) \cup {strategyName} |->
                      IF n = strategyName THEN new ELSE a.livePerformance[n]]]

shouldExcludeStrategy(a, strategyName) ==
  /\ strategyName \in DOMAIN a.livePerformance
  /\ LET perfOf == a.livePerformance[strategyName]
     IN  \/ perfOf.trades >= 3 /\ perfOf.wins = 0
         \/ perfOf.trades >= 5 /\ FLt(Frac(perfOf.wins, perfOf.trades), Pct(30))

getStrategyWeight(a, p, strategyName) ==
  IF strategyName \notin DOMAIN a.livePerformance
     \/ a.livePerformance[strategyName].trades < 2
  THEN Perf_getStrategyWeight(p, strategyName)
  ELSE LET winRate == Frac(a.livePerformance[strategyName].wins,
                           a.livePerformance[strategyName].trades)
       IN  IF FGe(winRate, Pct(80)) THEN Z(2)
           ELSE IF FGe(winRate, Pct(70)) THEN Frac(7, 4)
           ELSE IF FGe(winRate, Pct(60)) THEN Frac(3, 2)
           ELSE IF FGe(winRate, Pct(50)) THEN Z(1)
           ELSE IF FGe(winRate, Pct(40)) THEN Frac(1, 2)
           ELSE IF FGe(winRate, Pct(30)) THEN Frac(1, 4)
           ELSE Frac(1, 10)

RECURSIVE CollectFrom(_, _, _, _, _)
\* the loop of collectSignals over the eligible strategies; analysis[n] is what
\* strategy n does this cycle: ready = canTrade(), signal = analyze(analysisData)
CollectFrom(a, p, eligible, analysis, regime) ==
  IF eligible = << >> THEN << >>
  ELSE
    LET n == Head(eligible)
        rest == CollectFrom(a, p, Tail(eligible), analysis, regime)
        signal == analysis[n].signal
    IN  IF ~analysis[n].ready THEN rest
        ELSE IF shouldExcludeStrategy(a, n) THEN rest
        ELSE IF signal # NoSignal /\ FGe(signal.confidence, MinConfidence)
        THEN LET adjusted == adjustSignal(signal, n, regime)
             IN  << [strategyName |-> n, side |-> adjusted.side,
                     confidence |-> adjusted.confidence,
                     weight |-> getStrategyWeight(a, p, n)] >> \o rest
        ELSE rest

\* collectSignals looping over every strategy passed in, the router not consulted
collectSignalsUnrouted(a, p, strategies, analysis, regime) ==
  CollectFrom(a, p, strategies, analysis, regime)

collectSignals(a, p, strategies, analysis, regime) ==
  CollectFrom(a, p, filterStrategies(strategies, regime), analysis, regime)

SignalMass(sig) == FMul(sig.confidence, sig.weight)
SignalWeight(sig) == sig.weight

\* detectConflicts with the share of the smaller side taken as the conflict level
detectConflictsShare(signals) ==
  LET IsUp(sig) == sig.side = "UP"
      IsDown(sig) == sig.side = "DOWN"
      upWeight == SumSeq(SelectSeq(signals, IsUp), SignalMass)
      downWeight == SumSeq(SelectSeq(signals, IsDown), SignalMass)
      totalWeight == FAdd(upWeight, downWeight)
  IN  IF totalWeight = Z(0)
      THEN [conflictLevel |-> Z(0), upRatio |-> Frac(1, 2), downRatio |-> Frac(1, 2),
            upCount |-> 0, downCount |-> 0]
      ELSE [conflictLevel |-> FMin(FDiv(upWeight, totalWeight), FDiv(downWeight, totalWeight)),
            upRatio |-> FDiv(upWeight, totalWeight),
            downRatio |-> FDiv(downWeight, totalWeight),
            upCount |-> Len(SelectSeq(signals, IsUp)),
            downCount |-> Len(SelectSeq(signals, IsDown))]

detectConflicts(signals) ==
  LET IsUp(sig) == sig.side = "UP"
      IsDown(sig) == sig.side = "DOWN"
      upWeight == SumSeq(SelectSeq(signals, IsUp), SignalMass)
      downWeight == SumSeq(SelectSeq(signals, IsDown), SignalMass)
      totalWeight == FAdd(upWeight, downWeight)
  IN  IF totalWeight = Z(0)
      THEN [conflictLevel |-> Z(0), upRatio |-> Frac(1, 2), downRatio |-> Frac(1, 2),
            upCount |-> 0, downCount |-> 0]
      ELSE [conflictLevel |-> FMul(FMin(FDiv(upWeight, totalWeight),
                                        FDiv(downWeight, totalWeight)), Z(2)),
            upRatio |-> FDiv(upWeight, totalWeight),
            downRatio |-> FDiv(downWeight, totalWeight),
            upCount |-> Len(SelectSeq(signals, IsUp)),
            downCount |-> Len(SelectSeq(signals, IsDown))]

\* calculateStrength with WEAK starting at 0.60
calculateStrengthWeakFrom60(confidence, agreementCount) ==
  IF FGe(confidence, Pct(75)) /\ agreementCount >= 3 THEN "STRONG"
  ELSE IF FGe(confidence, Pct(65)) /\ agreementCount >= 2 THEN "GOOD"
  ELSE IF FGe(confidence, Pct(60)) THEN "WEAK"
  ELSE "INSUFFICIENT"

\* calculateStrength asking three agreeing strategies for GOOD as well
calculateStrengthNeedsThree(confidence, agreementCount) ==
  IF FGe(confidence, Pct(75)) /\ agreementCount >= 3 THEN "STRONG"
  ELSE IF FGe(confidence, Pct(65)) /\ agreementCount >= 3 THEN "GOOD"
  ELSE IF FGe(confidence, Pct(55)) THEN "WEAK"
  ELSE "INSUFFICIENT"

calculateStrength(confidence, agreementCount) ==
  IF FGe(confidence, Pct(75)) /\ agreementCount >= 3 THEN "STRONG"
  ELSE IF FGe(confidence, Pct(65)) /\ agreementCount >= 2 THEN "GOOD"
  ELSE IF FGe(confidence, Pct(55)) THEN "WEAK"
  ELSE "INSUFFICIENT"

\* aggregate without the refusal for too much disagreement
aggregateUngated(a, p, strategies, analysis, regime) ==
  LET signals == collectSignals(a, p, strategies, analysis, regime)
      conflict == detectConflicts(signals)
  IN  IF Len(signals) = 0
      THEN [action |-> "NO_TRADE", reason |-> "no_signals", allSignals |-> signals]
      ELSE IF Len(signals) < MinStrategiesToTrade
      THEN [action |-> "NO_TRADE", reason |-> "insufficient_signals", allSignals |-> signals]
      ELSE
        LET side == IF FGt(conflict.upRatio, conflict.downRatio) THEN "UP" ELSE "DOWN"
            IsDominant(sig) == sig.side = side
            dominantSignals == SelectSeq(signals, IsDominant)
            totalWeight == SumSeq(dominantSignals, SignalWeight)
            weightedConfidence == FDiv(SumSeq(dominantSignals, SignalMass), totalWeight)
            agreementBonus == FMin(Pct(10),
                                   FMul(Z(Len(dominantSignals) - 1), AgreementBonus))
            conflictPenalty == FMul(conflict.conflictLevel, Frac(1, 2))
            finalConfidence ==
              FMax(MinConfidence,
                   FMin(MaxConfidence,
                        FSub(FAdd(weightedConfidence, agreementBonus), conflictPenalty)))
        IN  [action |-> "ENTER", reason |-> "null", side |-> side,
             confidence |-> finalConfidence,
             strength |-> calculateStrength(finalConfidence, Len(dominantSignals)),
             agreementCount |-> Len(dominantSignals),
             totalSignals |-> Len(signals),
             conflictLevel |-> conflict.conflictLevel,
             allSignals |-> signals]

\* SignalAggregator.aggregate(strategies, analysisData, regime)
aggregate(a, p, strategies, analysis, regime) ==
  LET signals == collectSignals(a, p, strategies, analysis, regime)
      conflict == detectConflicts(signals)
  IN  IF Len(signals) = 0
      THEN [action |-> "NO_TRADE", reason |-> "no_signals", allSignals |-> signals]
      ELSE IF Len(signals) < MinStrategiesToTrade
      THEN [action |-> "NO_TRADE", reason |-> "insufficient_signals", allSignals |-> signals]
      ELSE IF FGt(conflict.conflictLevel, ConflictThreshold)
      THEN [action |-> "NO_TRADE", reason |-> "strategy_conflict",
            conflictLevel |-> conflict.conflictLevel, allSignals |-> signals]
      ELSE
        LET side == IF FGt(conflict.upRatio, conflict.downRatio) THEN "UP" ELSE "DOWN"
            IsDominant(sig) == sig.side = side
            dominantSignals == SelectSeq(signals, IsDominant)
            totalWeight == SumSeq(dominantSignals, SignalWeight)
            weightedConfidence == FDiv(SumSeq(dominantSignals, SignalMass), totalWeight)
            agreementBonus == FMin(Pct(10),
                                   FMul(Z(Len(dominantSignals) - 1), AgreementBonus))
            conflictPenalty == FMul(conflict.conflictLevel, Frac(1, 2))
            finalConfidence ==
              FMax(MinConfidence,
                   FMin(MaxConfidence,
                        FSub(FAdd(weightedConfidence, agreementBonus), conflictPenalty)))
        IN  [action |-> "ENTER", reason |-> "null", side |-> side,
             confidence |-> finalConfidence,
             strength |-> calculateStrength(finalConfidence, Len(dominantSignals)),
             agreementCount |-> Len(dominantSignals),
             totalSignals |-> Len(signals),
             conflictLevel |-> conflict.conflictLevel,
             allSignals |-> signals]

----------------------------------------------------------------------------
(* ALL_DAY_CONFIG.position and PositionManager; scaledOutLevels maps a      *)
(* tradeId to the set of scale-out levels already taken                     *)

TakeProfit == [enabled |-> TRUE, targetMultiple |-> Z(2), absoluteThreshold |-> Pct(85)]
StopLoss == [enabled |-> TRUE, percentDrop |-> Pct(30), absoluteFloor |-> Pct(10)]
TimeDecay ==
  [enabled |-> TRUE,
   thresholds |-> << [timeLeftMin |-> 3, reduceBy |-> Pct(50)],
                     [timeLeftMin |-> 1, reduceBy |-> Z(1)] >>]
ScaleOut ==
  [enabled |-> TRUE,
   levels |-> << [priceMultiple |-> Frac(3, 2), exitPercentage |-> Pct(33)],
                 [priceMultiple |-> Z(2), exitPercentage |-> Pct(50)] >>]

NoExit == [action |-> "null"]

ExitRec(action, reason, recommendation, exitPercentage, reduceBy, levelKey) ==
  [action |-> action, reason |-> reason, recommendation |-> recommendation,
   exitPercentage |-> exitPercentage, reduceBy |-> reduceBy, levelKey |-> levelKey]

\* checkTakeProfit firing only above the target multiple, not at it
checkTakeProfitAbove(position, currentSharePrice) ==
  IF FGt(FDiv(currentSharePrice, position.entryPrice), TakeProfit.targetMultiple)
  THEN ExitRec("TAKE_PROFIT", "TARGET_MULTIPLE", "close", Z(0), Z(0), Z(0))
  ELSE IF FGe(currentSharePrice, TakeProfit.absoluteThreshold)
  THEN ExitRec("TAKE_PROFIT", "ABSOLUTE_THRESHOLD", "close", Z(0), Z(0), Z(0))
  ELSE NoExit

checkTakeProfit(position, currentSharePrice) ==
  IF FGe(FDiv(currentSharePrice, position.entryPrice), TakeProfit.targetMultiple)
  THEN ExitRec("TAKE_PROFIT", "TARGET_MULTIPLE", "close", Z(0), Z(0), Z(0))
  ELSE IF FGe(currentSharePrice, TakeProfit.absoluteThreshold)
  THEN ExitRec("TAKE_PROFIT", "ABSOLUTE_THRESHOLD", "close", Z(0), Z(0), Z(0))
  ELSE NoExit

checkStopLoss(position, currentSharePrice) ==
  IF FGe(FSub(Z(1), FDiv(currentSharePrice, position.entryPrice)), StopLoss.percentDrop)
  THEN ExitRec("STOP_LOSS", "PERCENT_DROP", "close", Z(0), Z(0), Z(0))
  ELSE IF FLe(currentSharePrice, StopLoss.absoluteFloor)
  THEN ExitRec("STOP_LOSS", "ABSOLUTE_FLOOR", "close", Z(0), Z(0), Z(0))
  ELSE NoExit

RECURSIVE FirstLevel(_, _, _)
\* the loop of checkScaleOut over the levels not yet taken
FirstLevel(levels, hitLevels, priceMultiple) ==
  IF levels = << >> THEN NoExit
  ELSE IF Head(levels).priceMultiple \in hitLevels
  THEN FirstLevel(Tail(levels), hitLevels, priceMultiple)
  ELSE IF FGe(priceMultiple, Head(levels).priceMultiple)
  THEN ExitRec("SCALE_OUT", "LEVEL", "scale_out", Head(levels).exitPercentage, Z(0),
               Head(levels).priceMultiple)
  ELSE FirstLevel(Tail(levels), hitLevels, priceMultiple)

\* checkScaleOut without the levels already taken
checkScaleOutUntracked(scaledOutLevels, position, currentSharePrice) ==
  FirstLevel(ScaleOut.levels, {}, FDiv(currentSharePrice, position.entryPrice))

checkScaleOut(scaledOutLevels, position, currentSharePrice) ==
  LET hitLevels == IF position.tradeId \in DOMAIN scaledOutLevels
                   THEN scaledOutLevels[position.tradeId] ELSE {}
  IN  FirstLevel(ScaleOut.levels, hitLevels, FDiv(currentSharePrice, position.entryPrice))

RECURSIVE FirstDecay(_, _, _)
\* the loop of checkTimeDecay over the thresholds, highest timeLeftMin first
FirstDecay(sortedThresholds, position, remainingMinutes) ==
  IF sortedThresholds = << >> THEN NoExit
  ELSE LET threshold == Head(sortedThresholds)
       IN  IF remainingMinutes <= threshold.timeLeftMin
              /\ FLt(position.scaledOutPercent, threshold.reduceBy)
           THEN ExitRec("TIME_DECAY", "TIME", 
                        IF FGe(threshold.reduceBy, Z(1)) THEN "close" ELSE "scale_out",
                        Z(0), FSub(threshold.reduceBy, position.scaledOutPercent), Z(0))
           ELSE FirstDecay(Tail(sortedThresholds), position, remainingMinutes)

RECURSIVE SortByTimeDesc(_)
\* [...thresholds].sort((a, b) => b.timeLeftMin - a.timeLeftMin)
SortByTimeDesc(ths) ==
  IF ths = << >> THEN << >>
  ELSE LET i == CHOOSE k \in 1..Len(ths) :
                  \A j \in 1..Len(ths) :
                    \/ ths[k].timeLeftMin > ths[j].timeLeftMin
                    \/ (ths[k].timeLeftMin = ths[j].timeLeftMin /\ k <= j)
       IN  <<ths[i]>> \o SortByTimeDesc(RemoveAt(ths, i))

\* checkTimeDecay recommending the threshold's whole target as the reduction
checkTimeDecayWholeTarget(position, remainingMinutes) ==
  LET rec == FirstDecay(SortByTimeDesc(TimeDecay.thresholds), position, remainingMinutes)
  IN  IF rec = NoExit THEN rec
      ELSE [rec EXCEPT !.reduceBy = FAdd(@, position.scaledOutPercent)]

\* checkTimeDecay looking only at the widest threshold in force
checkTimeDecayWidestOnly(position, remainingMinutes) ==
  LET InForce(th) == remainingMinutes <= th.timeLeftMin
      inForce == SelectSeq(SortByTimeDesc(TimeDecay.thresholds), InForce)
  IN  IF inForce = << >> THEN NoExit
      ELSE FirstDecay(<< Head(inForce) >>, position, remainingMinutes)

checkTimeDecay(position, remainingMinutes) ==
  FirstDecay(SortByTimeDesc(TimeDecay.thresholds), position, remainingMinutes)

\* checkPositionExit with the scale-out ladder tried before take-profit and stop-loss
checkExitLadderFirst(scaledOutLevels, position, currentSharePrice, remainingMinutes) ==
  LET so == checkScaleOut(scaledOutLevels, position, currentSharePrice)
      tp == checkTakeProfit(position, currentSharePrice)
      sl == checkStopLoss(position, currentSharePrice)
  IN  IF so # NoExit THEN so
      ELSE IF tp # NoExit THEN tp
      ELSE IF sl # NoExit THEN sl
      ELSE checkTimeDecay(position, remainingMinutes)

checkPositionExit(scaledOutLevels, position, currentSharePrice, remainingMinutes) ==
  LET tp == IF TakeProfit.enabled THEN checkTakeProfit(position, currentSharePrice) ELSE NoExit
      sl == IF StopLoss.enabled THEN checkStopLoss(position, currentSharePrice) ELSE NoExit
      so == IF ScaleOut.enabled
            THEN checkScaleOut(scaledOutLevels, position, currentSharePrice) ELSE NoExit
      td == IF TimeDecay.enabled THEN checkTimeDecay(position, remainingMinutes) ELSE NoExit
  IN  IF tp # NoExit THEN tp
      ELSE IF sl # NoExit THEN sl
      ELSE IF so # NoExit THEN so
      ELSE td

RECURSIVE ExitsOf(_, _, _, _)
\* checkExits: the recommendations for the positions, in order; a missing or
\* zero share price skips the position
ExitsOf(scaledOutLevels, positions, currentSharePrices, remainingMinutes) ==
  IF positions = << >> THEN << >>
  ELSE LET position == Head(positions)
           currentPrice == currentSharePrices[position.side]
           rec == checkPositionExit(scaledOutLevels, position, currentPrice, remainingMinutes)
           rest == ExitsOf(scaledOutLevels, Tail(positions), currentSharePrices,
                           remainingMinutes)
       IN  IF currentPrice = Z(0) \/ rec = NoExit THEN rest
           ELSE << [position |-> position, currentPrice |-> currentPrice, rec |-> rec] >>
                  \o rest

\* the level tracking after a scale-out of tradeId at levelKey
LevelsAfterScaleOut(scaledOutLevels, tradeId, levelKey) ==
  LET hitLevels == IF tradeId \in DOMAIN scaledOutLevels
                   THEN scaledOutLevels[tradeId] ELSE {}
  IN  IF levelKey # Z(0)
      THEN [k \in (DOMAIN scaledOutLevels) \cup {tradeId} |->
              IF k = tradeId THEN hitLevels \cup {levelKey} ELSE scaledOutLevels[k]]
      ELSE scaledOutLevels

\* what executeExit leaves: the engine call's outcome r with the level tracking
Executed(r, levels) == [eng |-> r.eng, levels |-> levels, res |-> r.res]

\* executeExit: the engine and the level tracking afterwards, and the result
executeExit(scaledOutLevels, e, exit) ==
  IF exit.rec.recommendation = "close"
  THEN Executed(closePositionEarly(e, exit.position.tradeId, exit.currentPrice,
                                   exit.rec.action),
                [k \in (DOMAIN scaledOutLevels) \ {exit.position.tradeId} |->
                   scaledOutLevels[k]])
  ELSE IF exit.rec.recommendation = "scale_out"
  THEN Executed(scaleOutPosition(e, exit.position.tradeId,
                                 IF exit.rec.exitPercentage # Z(0)
                                 THEN exit.rec.exitPercentage
                                 ELSE IF exit.rec.reduceBy # Z(0) THEN exit.rec.reduceBy
                                 ELSE Frac(1, 2),
                                 exit.currentPrice, exit.rec.action),
                LevelsAfterScaleOut(scaledOutLevels, exit.position.tradeId,
                                    exit.rec.levelKey))
  ELSE [eng |-> e, levels |-> scaledOutLevels,
        res |-> [success |-> FALSE, error |-> "Unknown recommendation"]]

\* results.push({...result, action, strategyName, side})
ExitResult(exit, res) ==
  [success |-> res.success,
   pnl |-> IF res.success THEN res.pnl ELSE Z(0),
   won |-> IF res.success THEN res.won ELSE FALSE,
   action |-> exit.rec.action,
   strategyName |-> exit.position.strategyName,
   side |-> exit.position.side]

PushExitResult(result, rest) ==
  [eng |-> rest.eng, levels |-> rest.levels, results |-> <<result>> \o rest.results]

RECURSIVE ExecuteEach(_, _, _)
RECURSIVE ExecuteRest(_, _, _)
\* the loop of processExits over the exits
ExecuteEach(scaledOutLevels, e, exits) ==
  IF exits = << >> THEN [eng |-> e, levels |-> scaledOutLevels, results |-> << >>]
  ELSE ExecuteRest(Head(exits), Tail(exits), executeExit(scaledOutLevels, e, Head(exits)))

ExecuteRest(exit, others, one) ==
  PushExitResult(ExitResult(exit, one.res), ExecuteEach(one.levels, one.eng, others))

\* PositionManager.processExits(currentSharePrices, remainingMinutes)
processExits(scaledOutLevels, e, currentSharePrices, remainingMinutes) ==
  ExecuteEach(scaledOutLevels, e,
              ExitsOf(scaledOutLevels, e.positions, currentSharePrices, remainingMinutes))

----------------------------------------------------------------------------
(* State after construction                                                *)

Tracker0 == Tracker_new
Session0 == SessionReset(InitialBalance)
Agg0 == Agg_new
Perf0 == Perf_new
\* AllDayTrader's own fields after its constructor; null prices and the null
\* market are Z(0) and "null" (the code tests them by truthiness), pc is the
\* position of run(), cooling the strategies whose lastTradeTime is less than
\* cooldownMs old
Trader0 ==
  [pc |-> "constructed", running |-> FALSE, loopCount |-> 0,
   currentMarket |-> "null", yesPrice |-> Z(0), noPrice |-> Z(0),
   priceAtStart |-> Z(0), lastPrice |-> Z(0), lastRegime |-> "null",
   scaledOutLevels |-> << >>, cooling |-> {}]
\* history kept beside the program's state: hardHalt, a daily-loss or drawdown halt
\* happened since the last reset; fired, the (tradeId, level) scale-outs executed so
\* far; recrossed, the positions whose price came back to a level that had fired
\* after a cycle below it; dipped, those seen below a fired level; fetchFailed, the
\* market lookup of the cycle in flight failed; outcomes, for each strategy every
\* `won` passed to recordOutcome so far, oldest first
Obs0 ==
  [hardHalt |-> FALSE, emergency |-> FALSE, lastMinute |-> FALSE, fired |-> << >>, dipped |-> {}, recrossed |-> {},
   fetchFailed |-> FALSE, outcomes |-> << >>]

----------------------------------------------------------------------------
(* Ledger operations as actions (specification SpecEngine)                 *)

EntryPrices == {Frac(2, 5)}
OpenSizes == {Z(0), Z(250)}
SharePrices == {Frac(1, 10), Frac(3, 4)}
Percentages == {Frac(1, 2), Z(1), Frac(3, 2)}
Confidences == {Pct(55), Pct(90)}

EngOps(e) == e.tradeIdCounter + Len(e.closedTrades)

OthersIdleE == UNCHANGED <<tracker, session, agg, trader, perf, now, obs>>

EngCalculateBetSize ==
  \E confidence \in Confidences, strategyName \in Strategies :
    /\ ret' = [op |-> "calculateBetSize",
                betSize |-> calculateBetSize(engine, confidence, strategyName).betSize,
                drawdownMultiplier |->
                  calculateBetSize(engine, confidence, strategyName).drawdownMultiplier]
    /\ UNCHANGED engine
    /\ OthersIdleE

EngOpenPosition ==
  \E strategyName \in Strategies, side \in Sides, entryPrice \in EntryPrices,
     marketId \in Markets,
     size \in OpenSizes :
    /\ EngOps(engine) < MaxOps
    /\ LET r == openPosition(engine, strategyName, side, entryPrice, size, marketId)
       IN  /\ engine' = r.eng
           /\ ret' = None
    /\ OthersIdleE

EngClosePosition ==
  \E tradeId \in 1..MaxOps, outcome \in Sides :
    /\ EngOps(engine) < MaxOps
    /\ LET r == closePosition(engine, tradeId, outcome, IF outcome = "UP" THEN Z(1) ELSE Z(0))
       IN  /\ engine' = r.eng
           /\ ret' = None
    /\ OthersIdleE

EngCloseAllForMarket ==
  \E marketId \in Markets, outcome \in Sides :
    /\ LET r == closeAllForMarket(engine, marketId, outcome,
                                  IF outcome = "UP" THEN Z(1) ELSE Z(0))
       IN  /\ EngOps(r.eng) <= MaxOps
           /\ engine' = r.eng
           /\ ret' = None
    /\ OthersIdleE

EngClosePositionEarly ==
  \E tradeId \in 1..MaxOps, currentSharePrice \in SharePrices :
    /\ EngOps(engine) < MaxOps
    /\ LET r == closePositionEarly(engine, tradeId, currentSharePrice, "EARLY_EXIT")
       IN  /\ engine' = r.eng
           /\ ret' = None
    /\ OthersIdleE

EngScaleOutPosition ==
  \E tradeId \in 1..MaxOps, percentage \in Percentages, currentSharePrice \in SharePrices :
    /\ EngOps(engine) < MaxOps
    /\ LET r == scaleOutPosition(engine, tradeId, percentage, currentSharePrice, "SCALE_OUT")
       IN  /\ engine' = r.eng
           /\ ret' = None
    /\ OthersIdleE

InitEngine ==
  /\ engine = Engine0
  /\ tracker = Tracker0
  /\ session = Session0
  /\ agg = Agg0
  /\ trader = Trader0
  /\ perf = Perf0
  /\ now = 0
  /\ ret = None
  /\ obs = Obs0

NextEngine ==
  \/ EngOpenPosition
  \/ EngClosePosition
  \/ EngCloseAllForMarket
  \/ EngClosePositionEarly
  \/ EngScaleOutPosition

SpecEngine == InitEngine /\ [][NextEngine]_vars

\* Bet sizing against the ledger's balance and open exposure (SpecBet)
NextBet ==
  \/ EngOpenPosition
  \/ EngClosePosition
  \/ EngCalculateBetSize

SpecBet == InitEngine /\ [][NextBet]_vars

\* C1: between operations, balance = initialBalance + the sum of pnl over all
\* closedTrades records (full closes and partial scale-outs).
BalanceIdentity ==
  engine.balance = FAdd(engine.initialBalance, SumSeq(engine.closedTrades, TradePnl))

\* a full close and a partial scale-out have both been recorded and moved the balance
BalanceIdentityWitness ==
  /\ \E i, j \in 1..Len(engine.closedTrades) :
        /\ engine.closedTrades[i].status = "PARTIAL_CLOSE"
        /\ engine.closedTrades[j].status = "CLOSED"
  /\ engine.balance # engine.initialBalance

\* C13: after any sequence of scaleOutPosition calls with fractions in (0,1], an
\* open position's scaledOutPercent lies within [0,1].
ScaledOutWithinUnit ==
  \A i \in 1..Len(engine.positions) :
     /\ FGe(engine.positions[i].scaledOutPercent, Z(0))
     /\ FLe(engine.positions[i].scaledOutPercent, Z(1))

\* C14: a position whose scaledOutPercent a scale-out has brought to 1 is CLOSED and
\* no longer among the engine's open positions.
FullyScaledOutIsClosed ==
  [][\A i \in 1..Len(engine'.positions) :
        \A j \in 1..Len(engine.positions) :
           (/\ engine.positions[j].tradeId = engine'.positions[i].tradeId
            /\ FLt(engine.positions[j].scaledOutPercent, Z(1)))
             => engine'.positions[i].scaledOutPercent # Z(1)]_vars

\* the ids in 1..MaxOps that are not an open position of engine e
NotOpenIds(e) == (1..MaxOps) \ {e.positions[i].tradeId : i \in 1..Len(e.positions)}

\* closePosition, closePositionEarly and scaleOutPosition all refuse tradeId and
\* return the engine as it was
RefusedUnchanged(e, tradeId) ==
  /\ \A outcome \in Sides, exitPrice \in {Z(0), Z(1)} :
        /\ ~closePosition(e, tradeId, outcome, exitPrice).res.success
        /\ closePosition(e, tradeId, outcome, exitPrice).eng = e
  /\ \A currentSharePrice \in SharePrices :
        /\ ~closePositionEarly(e, tradeId, currentSharePrice, "EARLY_EXIT").res.success
        /\ closePositionEarly(e, tradeId, currentSharePrice, "EARLY_EXIT").eng = e
  /\ \A currentSharePrice \in SharePrices, percentage \in Percentages :
        /\ ~scaleOutPosition(e, tradeId, percentage, currentSharePrice,
                             "SCALE_OUT").res.success
        /\ scaleOutPosition(e, tradeId, percentage, currentSharePrice, "SCALE_OUT").eng = e

\* C18: closePosition, closePositionEarly and scaleOutPosition called with an id
\* that is not an open position return success = false and leave balance, stats,
\* open positions and closedTrades as they were.
UnknownIdRefused ==
  \A tradeId \in NotOpenIds(engine) : RefusedUnchanged(engine, tradeId)

\* a ledger with an open position, a closed one and an id never issued: the calls
\* on the closed id and on the unissued id are refused
UnknownIdRefusedWitness ==
  /\ Len(engine.positions) > 0
  /\ engine.tradeIdCounter < MaxOps
  /\ \E i \in 1..Len(engine.closedTrades) :
        /\ engine.closedTrades[i].status = "CLOSED"
        /\ engine.closedTrades[i].tradeId \in NotOpenIds(engine)
        /\ RefusedUnchanged(engine, engine.closedTrades[i].tradeId)
  /\ RefusedUnchanged(engine, engine.tradeIdCounter + 1)

\* C7: calculateBetSize never returns a betSize above
\* min(balance * maxPositionPercent, balance * maxTotalExposure - open exposure).
BetWithinLimits ==
  ret.op = "calculateBetSize" =>
    FLe(ret.betSize,
        FMin(FMul(engine.balance, MaxPositionPercent),
             FSub(FMul(engine.balance, EngineMaxTotalExposure),
                  SumSeq(engine.positions, PosSize))))

RECURSIVE LosingStreak(_)
\* the number of losing full closes at the end of the closed trades, partial
\* closes set aside
LosingStreak(closedTrades) ==
  IF closedTrades = << >> THEN 0
  ELSE LET last == closedTrades[Len(closedTrades)]
           before == SubSeq(closedTrades, 1, Len(closedTrades) - 1)
       IN  IF last.status # "CLOSED" THEN LosingStreak(before)
           ELSE IF last.won THEN 0
           ELSE 1 + LosingStreak(before)

\* C25: during a losing streak of k >= 1 consecutive losing closes calculateBetSize
\* applies the drawdown multiplier max(0.5, 1 - 0.1 k).
StreakShrinksBet ==
  (ret.op = "calculateBetSize" /\ LosingStreak(engine.closedTrades) >= 1) =>
    ret.drawdownMultiplier =
      FMax(Pct(50), FSub(Z(1), FMul(Z(LosingStreak(engine.closedTrades)), Pct(10))))

----------------------------------------------------------------------------
(* Opening positions on the ledger and on the tracker (specification SpecOpen) *)

MaxTrackerOps == 2

TrackerSizes == {Z(35)}
ExitReasons == {"STOP_LOSS"}

\* the side of the open position tradeId of a strategy, "null" when there is none
Tracker_sideOf(t, strategyName, tradeId) ==
  IF strategyName \notin DOMAIN t.strategies THEN "null"
  ELSE LET HasId(p) == p.tradeId = tradeId
           idx == FindIndex(t.strategies[strategyName].positions, HasId)
       IN  IF idx = 0 THEN "null" ELSE t.strategies[strategyName].positions[idx].side

Tracker_ops(t) ==
  t.idCounter
    + SumSeq([i \in 1..Len(t.order) |-> Z(Len(t.strategies[t.order[i]].closedTrades))],
             LAMBDA x : x).n

TrkOpenPosition ==
  \E strategyName \in Strategies, side \in Sides, entryPrice \in EntryPrices,
     marketId \in Markets, size \in TrackerSizes :
    /\ Tracker_ops(tracker) < MaxTrackerOps
    /\ LET r == Tracker_openPosition(tracker, strategyName, side, entryPrice, size, marketId)
       IN  /\ tracker' = r.trk
           /\ ret' = [op |-> "Tracker.openPosition",
                      existing |-> Tracker_getPosition(tracker, strategyName, marketId) # None,
                      success |-> r.res.success]
    /\ UNCHANGED <<engine, session, agg, trader, perf, now, obs>>

\* a close at resolution (exit price 1 or 0) or an early exit at a share price
TrkClosePosition ==
  \E strategyName \in Strategies, tradeId \in 1..MaxTrackerOps,
     how \in (Sides \X {"RESOLUTION"}) \cup ({"null"} \X ExitReasons) :
    /\ Tracker_ops(tracker) < MaxTrackerOps
    /\ \E exitPrice \in IF how[2] = "RESOLUTION" THEN {Z(1), Z(0)} ELSE SharePrices :
         /\ how[2] = "RESOLUTION" =>
              exitPrice = (IF Tracker_sideOf(tracker, strategyName, tradeId) = how[1]
                           THEN Z(1) ELSE Z(0))
         /\ LET r == Tracker_closePosition(tracker, strategyName, tradeId, exitPrice,
                                           how[2], how[1])
            IN  /\ tracker' = r.trk
                /\ ret' = None
    /\ UNCHANGED <<engine, session, agg, trader, perf, now, obs>>

NextOpen ==
  \/ EngOpenPosition
  \/ TrkOpenPosition
  \/ TrkClosePosition

SpecOpen == InitEngine /\ [][NextOpen]_vars

\* C2 (as stated): the engine never holds two open positions with the same
\* (strategyName, marketId), because openPosition rejects the second open.
EngineSinglePosition ==
  \A i, j \in 1..Len(engine.positions) :
    (/\ engine.positions[i].strategyName = engine.positions[j].strategyName
     /\ engine.positions[i].marketId = engine.positions[j].marketId) => i = j

\* C2 (amended): StrategyTracker.openPosition rejects an open for a strategy that
\* already has an open position on that market, so no strategy account ever
\* holds two open positions on the same market.
TrackerSinglePosition ==
  /\ \A n \in DOMAIN tracker.strategies :
       \A i, j \in 1..Len(tracker.strategies[n].positions) :
         tracker.strategies[n].positions[i].marketId
           = tracker.strategies[n].positions[j].marketId => i = j
  /\ (ret.op = "Tracker.openPosition" /\ ret.existing) => ~ret.success

\* a second open for the same strategy and market was attempted and rejected
TrackerSinglePositionWitness ==
  /\ ret.op = "Tracker.openPosition"
  /\ ret.existing
  /\ ~ret.success
  /\ \E n \in DOMAIN tracker.strategies : Len(tracker.strategies[n].positions) = 1

\* C26: along StrategyTracker opens and closes every strategy account holds at
\* most one open position per marketId, and an open for a strategy that already
\* has an open position on the market fails and leaves the tracker as it was.
OneOpenPerStrategyMarket ==
  [][/\ \A n \in DOMAIN tracker'.strategies :
          \A m \in Markets :
             Cardinality({i \in 1..Len(tracker'.strategies[n].positions) :
                            tracker'.strategies[n].positions[i].marketId = m}) <= 1
     /\ (ret'.op = "Tracker.openPosition" /\ ret'.existing)
          => (~ret'.success /\ tracker' = tracker)]_vars

\* MOMENTUM holds its one position, on M2, and a further open for a strategy and
\* market already taken has just failed
OneOpenPerStrategyMarketWitness ==
  /\ ret.op = "Tracker.openPosition"
  /\ ret.existing
  /\ ~ret.success
  /\ "MOMENTUM" \in DOMAIN tracker.strategies
  /\ Len(tracker.strategies["MOMENTUM"].positions) = 1
  /\ tracker.strategies["MOMENTUM"].positions[1].marketId = "M2"
  /\ tracker.strategies["MOMENTUM"].positions[1].status = "OPEN"

----------------------------------------------------------------------------
(* SessionState and RiskManager calls as actions (specification SpecRisk)  *)

MaxRecorded == 6
MaxTicks == 3
TickMinutes == CooldownAfterHalt \div 2

TradePnls == {Z(100), Z(-60), Z(-10), Z(0)}
RiskStrategies == {"MACD"}
BaseSizes == {Z(4), Z(35), Z(300)}
CurrentPositionSets ==
  { << >>,
    << [side |-> "UP", size |-> Z(100)] >>,
    << [side |-> "UP", size |-> Z(250)] >> }

OthersIdleR == UNCHANGED <<engine, tracker, agg, trader, perf>>

\* sessionState.recordTrade(trade) with the result of a closed trade
SessRecordTrade ==
  \E pnl \in TradePnls, strategyName \in RiskStrategies :
    /\ session.tradesExecuted < MaxRecorded
    /\ LET trade == [strategyName |-> strategyName, pnl |-> pnl, won |-> FGt(pnl, Z(0))]
           s1 == recordTrade(session, trade, now)
       IN  /\ session' = s1
           /\ obs' = [obs EXCEPT !.hardHalt =
                        @ \/ (s1.tradingHalted /\ s1.haltTime = now
                              /\ HaltCondition(s1) \in {DailyLossReason, DrawdownReason})]
           /\ ret' = [op |-> "recordTrade", won |-> trade.won]
    /\ UNCHANGED now
    /\ OthersIdleR

Tick ==
  /\ now < MaxTicks * TickMinutes
  /\ now' = now + TickMinutes
  /\ ret' = None
  /\ UNCHANGED <<session, obs>>
  /\ OthersIdleR

RiskCanTradeCall ==
  LET r == RiskCanTrade(session, now)
  IN  /\ session' = r.sess
      /\ ret' = [op |-> "canTrade", value |-> r.value]
      /\ UNCHANGED <<now, obs>>
      /\ OthersIdleR

SessResetCall ==
  /\ session' = SessionReset(session.initialBalance)
  /\ obs' = [obs EXCEPT !.hardHalt = FALSE, !.emergency = FALSE]
  /\ ret' = None
  /\ UNCHANGED now
  /\ OthersIdleR

RiskGetDrawdownMultiplier ==
  /\ ret' = [op |-> "getDrawdownMultiplier", value |-> getDrawdownMultiplier(session)]
  /\ UNCHANGED <<session, now, obs>>
  /\ OthersIdleR

RiskAdjustPositionSize ==
  \E baseSize \in BaseSizes, side \in Sides, currentPositions \in CurrentPositionSets :
    /\ ret' = [op |-> "adjustPositionSize", baseSize |-> baseSize, side |-> side,
                currentPositions |-> currentPositions,
                value |-> adjustPositionSize(session, baseSize, side, currentPositions)]
    /\ UNCHANGED <<session, now, obs>>
    /\ OthersIdleR

InitRisk ==
  /\ engine = Engine0
  /\ tracker = Tracker0
  /\ session = Session0
  /\ agg = Agg0
  /\ trader = Trader0
  /\ perf = Perf0
  /\ now = 0
  /\ ret = None
  /\ obs = Obs0

NextRisk ==
  \/ SessRecordTrade
  \/ Tick
  \/ RiskCanTradeCall
  \/ SessResetCall

SpecRisk == InitRisk /\ [][NextRisk]_vars

\* Position sizing against the session's balance and drawdown (SpecSizing)
NextSizing ==
  \/ SessRecordTrade
  \/ RiskGetDrawdownMultiplier
  \/ RiskAdjustPositionSize

SpecSizing == InitRisk /\ [][NextSizing]_vars

\* C3: once the session has been halted for the daily loss limit or for the
\* hard-stop drawdown, every RiskManager.canTrade() call returns false until
\* SessionState.reset() is called.
HardHaltSticks ==
  (obs.hardHalt /\ ret.op = "canTrade") => ~ret.value

\* C19: while the session is halted for the consecutive-loss limit, a canTrade()
\* call made before cooldownAfterHalt has elapsed since the halt (haltTime, the
\* time of the latest halt() call) returns false and leaves the halt in place; the
\* first call made once it has elapsed returns true, clears the halt and resets
\* consecutiveLosses to 0.
ConsecutiveHaltCooldown ==
  [][(/\ ret'.op = "canTrade"
      /\ now' = now
      /\ session.tradingHalted
      /\ IncludesConsecutive(session.haltReason))
       => IF now - session.haltTime >= CooldownAfterHalt
          THEN /\ ret'.value
               /\ ~session'.tradingHalted
               /\ session'.consecutiveLosses = 0
          ELSE /\ ~ret'.value
               /\ session' = session]_vars

\* a canTrade() call has just cleared a halt: it returned true at least a cooldown
\* after the start, the session counts consecutiveLossLimit losses or more, yet
\* consecutiveLosses is 0 and the session is not halted
ConsecutiveHaltCooldownWitness ==
  /\ ret.op = "canTrade"
  /\ ret.value
  /\ now >= CooldownAfterHalt
  /\ session.tradesLost >= ConsecutiveLossLimit
  /\ session.tradesWon = 0
  /\ session.consecutiveLosses = 0
  /\ ~session.tradingHalted

\* C6: adjustPositionSize never returns more than
\* min(balance * maxSinglePosition, balance * maxTotalExposure - open exposure).
AdjustedSizeWithinLimits ==
  ret.op = "adjustPositionSize" =>
    FLe(ret.value,
        FMin(FMul(session.balance, MaxSinglePosition),
             FSub(FMul(session.balance, MaxTotalExposure),
                  SumSeq(ret.currentPositions, PosSize))))

\* C8: getDrawdownMultiplier follows the configured ladder: 1.0 below 5%
\* drawdown, 0.80 from 5%, 0.50 from 8%, 0 from 10%.
DrawdownLadder ==
  ret.op = "getDrawdownMultiplier" =>
    ret.value = (IF FGe(session.currentDrawdown, Pct(10)) THEN Z(0)
                 ELSE IF FGe(session.currentDrawdown, Pct(8)) THEN Pct(50)
                 ELSE IF FGe(session.currentDrawdown, Pct(5)) THEN Pct(80)
                 ELSE Z(1))

\* C9: adjustPositionSize returns 0 whenever the size left after the drawdown
\* multiplier, the correlation penalty and the exposure clamp is below minBetSize.
BelowMinBetReturnsZero ==
  (/\ ret.op = "adjustPositionSize"
   /\ FLt(SizeAfterExposureClamp(session, ret.baseSize, ret.side, ret.currentPositions),
          MinBetSize))
    => ret.value = Z(0)

----------------------------------------------------------------------------
(* Signal aggregation over one cycle's strategy outputs (specification SpecAgg) *)

MaxLiveTrades == 4

StrategyList == << "MACD", "MOMENTUM" >>
AggRegimes == {"TREND_UP", "RANGE"}
SignalConfidences == {Pct(50), Pct(60), Pct(90)}
\* what analyze() returns: nothing, UP below the floor, above it or at the cap,
\* or DOWN at the cap
SignalOutputs ==
  {NoSignal} \cup [side : {"UP"}, confidence : SignalConfidences]
             \cup [side : {"DOWN"}, confidence : {Pct(90)}]
AnalyzeOutputs ==
  {[ready |-> FALSE, signal |-> NoSignal]} \cup [ready : {TRUE}, signal : SignalOutputs]

LiveTrades(a) ==
  SumSeq([i \in 1..Len(StrategyList) |->
            IF StrategyList[i] \in DOMAIN a.livePerformance
            THEN Z(a.livePerformance[StrategyList[i]].trades) ELSE Z(0)],
         LAMBDA x : x).n

AggUpdateLivePerformance ==
  \E strategyName \in Strategies, won \in BOOLEAN :
    /\ LiveTrades(agg) < MaxLiveTrades
    /\ agg' = updateLivePerformance(agg, strategyName, won,
                                    IF won THEN Z(35) ELSE Z(-35))
    /\ ret' = None
    /\ UNCHANGED <<engine, tracker, session, trader, perf, now, obs>>

AggAggregate ==
  \E analysis \in [Strategies -> AnalyzeOutputs], regime \in AggRegimes :
    /\ ret' = [op |-> "aggregate", analysis |-> analysis, regime |-> regime]
                 @@ aggregate(agg, perf, StrategyList, analysis, regime)
    /\ UNCHANGED <<engine, tracker, session, agg, trader, perf, now, obs>>

NextAgg ==
  \/ AggUpdateLivePerformance
  \/ AggAggregate

SpecAgg == InitEngine /\ [][NextAgg]_vars

\* C5: whenever the collected signals' conflictLevel (twice the smaller of the UP
\* and DOWN shares of the confidence-times-weight mass) exceeds conflictThreshold,
\* aggregate returns NO_TRADE; equal UP and DOWN mass gives conflictLevel 1.0 and
\* NO_TRADE whatever the confidences.
ConflictGate ==
  ret.op = "aggregate" =>
    LET IsUp(sig) == sig.side = "UP"
        IsDown(sig) == sig.side = "DOWN"
        up == SumSeq(SelectSeq(ret.allSignals, IsUp), SignalMass)
        down == SumSeq(SelectSeq(ret.allSignals, IsDown), SignalMass)
        total == FAdd(up, down)
    IN  /\ (FGt(total, Z(0))
            /\ FGt(FMul(Z(2), FDiv(FMin(up, down), total)), ConflictThreshold))
             => ret.action = "NO_TRADE"
        /\ (FGt(total, Z(0)) /\ up = down)
             => (ret.action = "NO_TRADE" /\ ret.conflictLevel = Z(1))

\* C22: every weight attached to a collected signal lies within weightRange, and
\* is defaultWeight for a strategy whose recorded sample is smaller than
\* minTradesForWeighting.
SignalWeightWithinRange ==
  ret.op = "aggregate" =>
    \A i \in 1..Len(ret.allSignals) :
       /\ FGe(ret.allSignals[i].weight, WeightRange[1])
       /\ FLe(ret.allSignals[i].weight, WeightRange[2])
       /\ (/\ LiveTrades(agg) < MinTradesForWeighting
           /\ Len(perf.strategyHistory[ret.allSignals[i].strategyName].trades)
                < MinTradesForWeighting)
            => ret.allSignals[i].weight = DefaultWeight

\* C20: aggregate returns ENTER exactly when at least one signal was collected,
\* the number of signals is at least minStrategiesToTrade and conflictLevel is at
\* most conflictThreshold; otherwise it returns NO_TRADE with the reason of the
\* first of these conditions that failed.
EnterIffGatesPass ==
  ret.op = "aggregate" =>
    LET IsUp(sig) == sig.side = "UP"
        IsDown(sig) == sig.side = "DOWN"
        up == SumSeq(SelectSeq(ret.allSignals, IsUp), SignalMass)
        down == SumSeq(SelectSeq(ret.allSignals, IsDown), SignalMass)
        level == IF FAdd(up, down) = Z(0) THEN Z(0)
                 ELSE FMul(Z(2), FDiv(FMin(up, down), FAdd(up, down)))
        count == Len(ret.allSignals)
    IN  /\ ret.action \in {"ENTER", "NO_TRADE"}
        /\ ret.action = "ENTER" <=>
             (count >= 1 /\ count >= MinStrategiesToTrade /\ FLe(level, ConflictThreshold))
        /\ ret.action = "NO_TRADE" =>
             ret.reason = (IF count = 0 THEN "no_signals"
                           ELSE IF count < MinStrategiesToTrade THEN "insufficient_signals"
                           ELSE "strategy_conflict")
        /\ ret.action = "ENTER" => ret.conflictLevel = level

\* an ENTER on two signals of opposite sides whose disagreement stayed within the
\* threshold
EnterIffGatesPassWitness ==
  /\ ret.op = "aggregate"
  /\ ret.action = "ENTER"
  /\ Len(ret.allSignals) = 2
  /\ ret.allSignals[1].side # ret.allSignals[2].side
  /\ FGt(ret.conflictLevel, Z(0))

\* two signals of confidence 0.9 and equal mass on opposite sides were refused
ConflictGateWitness ==
  /\ ret.op = "aggregate"
  /\ ret.action = "NO_TRADE"
  /\ ret.reason = "strategy_conflict"
  /\ ret.conflictLevel = Z(1)
  /\ Len(ret.allSignals) = 2
  /\ \A i \in 1..2 : ret.allSignals[i].confidence = Pct(90)

----------------------------------------------------------------------------
(* AllDayTrader: the trading loop over successive markets (specification     *)
(* SpecTrader).  A world is the trader with the components it owns.          *)

MaxCycles == 2

BetSize == Z(35)
AggregatedName == "AGGREGATED"

RECURSIVE InitEach(_, _)
InitEach(t, names) ==
  IF names = << >> THEN t ELSE InitEach(Tracker_initStrategy(t, Head(names)), Tail(names))

\* the tracker after AllDayTrader's constructor: one account per strategy and
\* one for the aggregated signal
TraderTracker0 == InitEach(Tracker_new, StrategyList \o <<AggregatedName>>)

World(tr, trk, p, e, sess) ==
  [trader |-> tr, tracker |-> trk, perf |-> p, engine |-> e, session |-> sess]

\* x || 0.50
OrHalf(x) == IF x = Z(0) THEN Frac(1, 2) ELSE x

\* AllDayTrader.fetchData(): the fetched price and regime, or a failed fetch
fetchData(tr, dataOk, price, regime) ==
  IF dataOk THEN [tr EXCEPT !.lastPrice = price, !.lastRegime = regime] ELSE tr

RECURSIVE RecordOutcomes(_, _)
\* performanceTracker.recordOutcome for every successful strategy result
RecordOutcomes(p, results) ==
  IF results = << >> THEN p
  ELSE LET result == Head(results)
       IN  RecordOutcomes(IF result.success
                          THEN Perf_recordOutcome(p, result.strategyName, result.won,
                                                  result.pnl)
                          ELSE p,
                          Tail(results))

RECURSIVE RecordTrades(_, _, _)
\* sessionState.recordTrade for every successful engine result
RecordTrades(sess, results, t) ==
  IF results = << >> THEN sess
  ELSE LET result == Head(results)
       IN  RecordTrades(IF result.success
                        THEN recordTrade(sess, [strategyName |-> result.strategyName,
                                                won |-> result.won, pnl |-> result.pnl], t)
                        ELSE sess,
                        Tail(results), t)

\* the trades of the engine's closing results, as sessionState.recordTrade reads them
EngineTrades(results) ==
  [i \in 1..Len(results) |->
     IF results[i].success
     THEN [success |-> TRUE, strategyName |-> results[i].trade.strategyName,
           won |-> results[i].won, pnl |-> results[i].pnl]
     ELSE [success |-> FALSE]]

\* resolveMarket after both closeAllForMarket calls
Resolved(w, strategyResults, results, t) ==
  World(w.trader, strategyResults.trk, RecordOutcomes(w.perf, strategyResults.res),
        results.eng, RecordTrades(w.session, EngineTrades(results.res), t))

ResolveAs(w, marketId, outcome, t) ==
  Resolved(w, Tracker_closeAllForMarket(w.tracker, marketId, outcome),
           closeAllForMarket(w.engine, marketId, outcome,
                             IF outcome = "UP" THEN Z(1) ELSE Z(0)),
           t)

\* AllDayTrader.resolveMarket(market); endPrice is this.lastPrice
resolveMarket(w, marketId, t) ==
  IF marketId = "null" \/ w.trader.priceAtStart = Z(0) THEN w
  ELSE ResolveAs(w, marketId,
                 IF FGt(w.trader.lastPrice, w.trader.priceAtStart) THEN "UP" ELSE "DOWN",
                 t)

NoMarket == [kind |-> "none"]
MarketError == [kind |-> "error"]

\* fetchMarket once the previous market, if any, has been through resolveMarket
AdoptMarket(resolved, isNewMarket, found) ==
  World([(IF isNewMarket
          THEN [resolved.trader EXCEPT !.currentMarket = found.id,
                                       !.priceAtStart = resolved.trader.lastPrice,
                                       !.scaledOutLevels = << >>]
          ELSE resolved.trader)
            EXCEPT !.yesPrice = found.yesPrice, !.noPrice = found.noPrice],
        resolved.tracker, resolved.perf, resolved.engine,
        IF isNewMarket
        THEN onNewMarket(resolved.session, found.id, resolved.trader.lastPrice)
        ELSE resolved.session)

\* AllDayTrader.fetchMarket(): found is what the market API gave this time, an
\* error, no live market, or a market with its live YES and NO prices
fetchMarket(w, found, t) ==
  IF found.kind # "market" THEN w
  ELSE AdoptMarket(IF w.trader.currentMarket # found.id /\ w.trader.currentMarket # "null"
                   THEN resolveMarket(w, w.trader.currentMarket, t) ELSE w,
                   w.trader.currentMarket # found.id, found)

PriceGuardPasses(contractPrice) ==
  ~(FGt(contractPrice, Pct(85)) \/ FLt(contractPrice, Pct(15)))

EntryPriceOf(contractPrice) == FMin(Pct(99), FAdd(contractPrice, Pct(1)))

ContractPriceOf(tr, side) ==
  IF side = "UP" THEN OrHalf(tr.yesPrice) ELSE OrHalf(tr.noPrice)

\* one strategy's turn in step 5: the tracker and the cooling strategies afterwards
Traded(opened, cooling, name) ==
  [trk |-> opened.trk,
   cooling |-> IF opened.res.success THEN cooling \cup {name} ELSE cooling]

TradeOne(trk, cooling, name, tr, signal) ==
  IF Tracker_getPosition(trk, name, tr.currentMarket) # None
  THEN [trk |-> trk, cooling |-> cooling]
  ELSE IF signal # NoSignal /\ FGe(signal.confidence, MinConfidence)
          /\ PriceGuardPasses(ContractPriceOf(tr, signal.side))
  THEN Traded(Tracker_openPosition(trk, name, signal.side,
                                   EntryPriceOf(ContractPriceOf(tr, signal.side)),
                                   BetSize, tr.currentMarket),
              cooling, name)
  ELSE [trk |-> trk, cooling |-> cooling]

RECURSIVE TradeEach(_, _, _, _)
\* step 5 of runIteration: every strategy trades on its own account
TradeEach(st, names, tr, signals) ==
  IF names = << >> THEN st
  ELSE TradeEach(TradeOne(st.trk, st.cooling, Head(names), tr, signals[Head(names)]),
                 Tail(names), tr, signals)

EnterAggregated(trk, aggregatedSignal, tr) ==
  IF aggregatedSignal.action # "ENTER" THEN trk
  ELSE IF Tracker_getPosition(trk, AggregatedName, tr.currentMarket) # None THEN trk
  ELSE IF PriceGuardPasses(ContractPriceOf(tr, aggregatedSignal.side))
  THEN Tracker_openPosition(trk, AggregatedName, aggregatedSignal.side,
                            EntryPriceOf(ContractPriceOf(tr, aggregatedSignal.side)),
                            BetSize, tr.currentMarket).trk
  ELSE trk

\* step 6 of runIteration: the aggregated signal trades as its own strategy;
\* a strategy that is cooling down gives the aggregator no signal
TradeAggregated(st, a, p, tr, signals) ==
  [trk |-> EnterAggregated(st.trk,
                           aggregate(a, p, StrategyList,
                                     [n \in DOMAIN signals |->
                                        [ready |-> n \notin st.cooling,
                                         signal |-> signals[n]]],
                                     tr.lastRegime),
                           tr),
   cooling |-> st.cooling]

\* runIteration from step 2 on: gate is what riskManager.canTrade() gave
Gated(w, a, remainingMinutes, signals, exits, gate, st) ==
  IF ~gate.value \/ remainingMinutes > 14 \/ remainingMinutes < 3
  THEN World([w.trader EXCEPT !.scaledOutLevels = exits.levels], w.tracker, w.perf,
             exits.eng, gate.sess)
  ELSE World([w.trader EXCEPT !.scaledOutLevels = exits.levels,
                              !.cooling = st.cooling],
             st.trk, w.perf, exits.eng, gate.sess)

\* runIteration after step 1: exits is what the early exits left
Exited(w, a, remainingMinutes, signals, exits, t) ==
  Gated(w, a, remainingMinutes, signals, exits,
        RiskCanTrade(RecordTrades(w.session, exits.results, t), t),
        TradeAggregated(TradeEach([trk |-> w.tracker, cooling |-> w.trader.cooling],
                                  StrategyList, w.trader, signals),
                        a, w.perf, w.trader, signals))

\* AllDayTrader.runIteration(): remainingMinutes is getRemainingMinutes(),
\* signals[n] what strategy n's analyze returns this cycle
runIteration(w, a, remainingMinutes, signals, t) ==
  Exited(w, a, remainingMinutes, signals,
         IF Len(w.engine.positions) > 0
         THEN processExits(w.trader.scaledOutLevels, w.engine,
                           [UP |-> OrHalf(w.trader.yesPrice),
                            DOWN |-> OrHalf(w.trader.noPrice)],
                           remainingMinutes)
         ELSE [eng |-> w.engine, levels |-> w.trader.scaledOutLevels, results |-> << >>],
         t)

\* AllDayTrader.getRemainingMinutes() when the clock leaves `remaining` minutes
getRemainingMinutes(tr, remaining) ==
  IF tr.currentMarket = "null" THEN 15 ELSE remaining

BtcPrices == {Z(100), Z(101)}
TraderRegimes == {"TREND_UP"}
Quotes == {[yesPrice |-> Pct(39), noPrice |-> Pct(59)],
           [yesPrice |-> Pct(90), noPrice |-> Pct(10)]}
FoundMarkets ==
  {NoMarket, MarketError}
    \cup {[kind |-> "market", id |-> m, yesPrice |-> q.yesPrice, noPrice |-> q.noPrice] :
            m \in Markets, q \in Quotes}
RemainingChoices == {10, 2}
TraderSignals == {NoSignal} \cup [side : Sides, confidence : {Pct(60)}]

TheWorld == World(trader, tracker, perf, engine, session)

\* run() up to its first await
TrRun ==
  /\ trader.pc = "constructed"
  /\ trader' = [trader EXCEPT !.running = TRUE, !.pc = "initialFetchData"]
  /\ ret' = None
  /\ UNCHANGED <<engine, tracker, session, agg, perf, now, obs>>

\* await this.fetchData(), before the loop and at the head of every iteration;
\* a strategy's cooldown may have run out since the last cycle
TrFetchData ==
  \E dataOk \in BOOLEAN, price \in BtcPrices, regime \in TraderRegimes,
     expired \in {{}, trader.cooling} :
    /\ (~dataOk) => (price = Z(100) /\ expired = {})
    /\ \/ /\ trader.pc = "initialFetchData"
          /\ trader' = [fetchData(trader, dataOk, price, regime) EXCEPT
                          !.pc = "initialFetchMarket"]
       \/ /\ trader.pc = "loop"
          /\ trader.running
          /\ trader.loopCount < MaxCycles
          /\ trader' = [fetchData(trader, dataOk, price, regime) EXCEPT
                          !.loopCount = @ + 1,
                          !.cooling = @ \ expired,
                          !.pc = IF dataOk THEN "fetchMarket" ELSE "loop"]
    /\ obs' = [obs EXCEPT !.fetchFailed = FALSE]
    /\ ret' = None
    /\ UNCHANGED <<engine, tracker, session, agg, perf, now>>

\* the components of the world w become the state, run() moving on to pc
Becomes(w, pc) ==
  /\ trader' = [w.trader EXCEPT !.pc = pc]
  /\ tracker' = w.tracker
  /\ perf' = w.perf
  /\ engine' = w.engine
  /\ session' = w.session

\* await this.fetchMarket(), before the loop and in every iteration
TrFetchMarket ==
  \E found \in FoundMarkets :
    /\ trader.pc \in {"initialFetchMarket", "fetchMarket"}
    /\ Becomes(fetchMarket(TheWorld, found, now),
               IF trader.pc = "initialFetchMarket" THEN "loop" ELSE "runIteration")
    /\ obs' = [obs EXCEPT !.fetchFailed = (trader.pc = "fetchMarket"
                                             /\ found.kind = "error")]
    /\ ret' = None
    /\ UNCHANGED <<agg, now>>

\* await this.runIteration()
TrRunIteration ==
  \E remaining \in RemainingChoices, signals \in [Strategies -> TraderSignals] :
    /\ trader.pc = "runIteration"
    /\ Becomes(runIteration(TheWorld, agg, getRemainingMinutes(trader, remaining),
                            signals, now),
               "loop")
    /\ ret' = None
    /\ UNCHANGED <<agg, now, obs>>

\* the SIGINT or SIGTERM handler: trader.stop(), which clears running and prints
\* the dashboard and the final results, then process.exit(0). The handler runs
\* while run() is suspended at an await on the network or on the poll timer, never
\* inside runIteration, which has no such await.
TrStop ==
  /\ trader.pc \in {"initialFetchData", "initialFetchMarket", "loop", "fetchMarket"}
  /\ trader' = [trader EXCEPT !.running = FALSE, !.pc = "exited"]
  /\ ret' = [op |-> "stop"]
  /\ UNCHANGED <<engine, tracker, session, agg, perf, now, obs>>

InitTrader ==
  /\ engine = Engine0
  /\ tracker = TraderTracker0
  /\ session = Session0
  /\ agg = Agg0
  /\ trader = Trader0
  /\ perf = Perf0
  /\ now = 0
  /\ ret = None
  /\ obs = Obs0

NextTrader ==
  \/ TrRun
  \/ TrFetchData
  \/ TrFetchMarket
  \/ TrRunIteration
  \/ TrStop

SpecTrader == InitTrader /\ [][NextTrader]_vars

\* the realized loss of the strategy accounts' closed trades, as a share of the
\* session's initial balance, has reached dailyLossLimit
ClosedLossAtLimit ==
  LET names == tracker.order
      Closed(n) == SumSeq(tracker.strategies[n].closedTrades, TradePnl)
      total == SumSeq([i \in 1..Len(names) |-> Closed(names[i])], LAMBDA x : x)
  IN  FGe(FDiv(FNeg(total), session.initialBalance), DailyLossLimit)

\* C4: once the closed trades have breached a halt condition (here: realized
\* losses of at least dailyLossLimit of the initial balance), no later cycle of
\* the trading loop opens a new position for any strategy.
NoEntryAfterHalt ==
  [][ClosedLossAtLimit => tracker'.idCounter = tracker.idCounter]_vars

\* C10: when the loop enters a position, no position of an earlier market is
\* still open: the previous market was resolved, and all its positions closed,
\* before any entry on the new market.
ResolvedBeforeEntry ==
  [][tracker'.idCounter > tracker.idCounter =>
       \A i \in 1..Len(Tracker_getAllPositions(tracker')) :
          Tracker_getAllPositions(tracker')[i].marketId = trader'.currentMarket]_vars

\* C16: in a cycle whose market lookup failed nothing is traded or recorded: the
\* strategy accounts, the engine's ledger, the session and the performance
\* history are the same after every step of the rest of that cycle.
FailedFetchSkipsCycle ==
  [][obs.fetchFailed =>
       /\ tracker' = tracker
       /\ engine' = engine
       /\ session' = session
       /\ perf' = perf]_vars

\* C17: a stop signal that arrives while a cycle is in flight (its data fetched,
\* its market lookup pending) does not end the process before that cycle's
\* runIteration has run.
StopLetsCycleFinish ==
  [][trader.pc = "fetchMarket" => trader'.pc # "exited"]_vars

----------------------------------------------------------------------------
(* Early exits: the engine's positions under PositionManager.processExits,   *)
(* cycle after cycle, each result recorded in the session as step 1 of        *)
(* runIteration does (specification SpecExits)                                *)

MaxExitOps == 4

ExitEntryPrice == Pct(40)
ExitSize == Z(100)
ExitStrategies == {"MACD"}
ExitMarket == "M1"
CycleQuotes == {[UP |-> Pct(20), DOWN |-> Pct(80)], [UP |-> Pct(50), DOWN |-> Pct(50)],
                [UP |-> Pct(60), DOWN |-> Pct(40)], [UP |-> Pct(80), DOWN |-> Pct(20)]}
CycleRemaining == {10, 2, 0}

DrawdownOf(peakBalance, balance) == FDiv(FSub(peakBalance, balance), peakBalance)

RECURSIVE DrawdownOver(_, _, _, _)
\* the largest (peak - balance) / peak over the balance points that the trades'
\* profits and losses produce one after the other
DrawdownOver(trades, balance, peakBalance, worst) ==
  IF trades = << >> THEN worst
  ELSE DrawdownOver(Tail(trades), FAdd(balance, Head(trades).pnl),
                    FMax(peakBalance, FAdd(balance, Head(trades).pnl)),
                    FMax(worst, DrawdownOf(FMax(peakBalance, FAdd(balance, Head(trades).pnl)),
                                           FAdd(balance, Head(trades).pnl))))

\* the (tradeId, level) pairs of the ladder scale-outs among the exits
RECURSIVE LadderFirings(_)
LadderFirings(exits) ==
  IF exits = << >> THEN << >>
  ELSE (IF Head(exits).rec.action = "SCALE_OUT"
        THEN << <<Head(exits).position.tradeId, Head(exits).rec.levelKey>> >>
        ELSE << >>) \o LadderFirings(Tail(exits))

PriceMultipleOf(position, quote) == FDiv(quote[position.side], position.entryPrice)

\* the open positions holding a fired level that the price of quote is below (TRUE)
\* or has reached (FALSE)
FiredAndBelow(positions, levels, quote, below) ==
  {positions[i].tradeId : i \in
     {k \in 1..Len(positions) :
        /\ positions[k].tradeId \in DOMAIN levels
        /\ \E lv \in levels[positions[k].tradeId] :
             FLt(PriceMultipleOf(positions[k], quote), lv) = below}}

ExOpen ==
  \E strategyName \in ExitStrategies, side \in Sides :
    /\ EngOps(engine) < MaxExitOps
    /\ engine' = openPosition(engine, strategyName, side, ExitEntryPrice, ExitSize,
                              ExitMarket).eng
    /\ ret' = None
    /\ UNCHANGED <<tracker, session, agg, trader, perf, now, obs>>

\* step 1 of runIteration with the engine's results recorded in the session
ExitsDone(done, before, levels, quote, remainingMinutes, exits) ==
  /\ engine' = done.eng
  /\ trader' = [trader EXCEPT !.scaledOutLevels = done.levels]
  /\ session' = RecordTrades(session, done.results, now)
  /\ ret' = [op |-> "processExits", positions |-> before, levels |-> levels,
             quote |-> quote, remainingMinutes |-> remainingMinutes, exits |-> exits]
  /\ obs' = [obs EXCEPT
               !.fired = @ \o LadderFirings(exits),
               !.dipped = @ \cup FiredAndBelow(before, levels, quote, TRUE),
               !.recrossed = @ \cup (obs.dipped
                                       \cap FiredAndBelow(before, levels, quote, FALSE))]

ExCycle ==
  \E quote \in CycleQuotes, remainingMinutes \in CycleRemaining :
    /\ Len(engine.positions) > 0
    /\ EngOps(engine) < MaxExitOps
    /\ ExitsDone(processExits(trader.scaledOutLevels, engine, quote, remainingMinutes),
                 engine.positions, trader.scaledOutLevels, quote, remainingMinutes,
                 ExitsOf(trader.scaledOutLevels, engine.positions, quote,
                         remainingMinutes))
    /\ UNCHANGED <<tracker, agg, perf, now>>

\* the engine's part of resolveMarket
Settled(results) ==
  /\ engine' = results.eng
  /\ session' = RecordTrades(session, EngineTrades(results.res), now)
  /\ UNCHANGED obs

ExResolve ==
  \E outcome \in Sides :
    /\ Len(engine.positions) > 0
    /\ EngOps(engine) < MaxExitOps
    /\ Settled(closeAllForMarket(engine, ExitMarket, outcome,
                                 IF outcome = "UP" THEN Z(1) ELSE Z(0)))
    /\ ret' = [op |-> "resolveMarket", outcome |-> outcome]
    /\ UNCHANGED <<tracker, agg, trader, perf, now>>

NextExits ==
  \/ ExOpen
  \/ ExCycle
  \/ ExResolve

SpecExits == InitEngine /\ [][NextExits]_vars

\* C11: over any sequence of processExits cycles each scale-out ladder level is
\* executed at most once for a position, and only in a cycle whose price has
\* reached the level: an unreached level fires nothing and a fired level never
\* fires again, also after the price fell below it and came back.
LadderLevelOnce ==
  /\ \A i, j \in 1..Len(obs.fired) : i # j => obs.fired[i] # obs.fired[j]
  /\ ret.op = "processExits" =>
       \A i \in 1..Len(ret.exits) :
          ret.exits[i].rec.action = "SCALE_OUT" =>
            FGe(PriceMultipleOf(ret.exits[i].position, ret.quote),
                ret.exits[i].rec.levelKey)

\* a position's level fired, the price fell below the level, and in the last cycle
\* the price was back at the level without a second scale-out
LadderLevelOnceWitness ==
  /\ ret.op = "processExits"
  /\ \E i \in 1..Len(ret.positions) :
       /\ ret.positions[i].tradeId \in obs.recrossed
       /\ <<ret.positions[i].tradeId, Frac(3, 2)>> \in {obs.fired[k] : k \in 1..Len(obs.fired)}
       /\ FGe(PriceMultipleOf(ret.positions[i], ret.quote), Frac(3, 2))
       /\ \A k \in 1..Len(ret.exits) :
            ret.exits[k].position.tradeId = ret.positions[i].tradeId
              => ret.exits[k].rec.action # "SCALE_OUT"

\* the rules that match position p in the cycle ret describes, in priority order
RulesMatching(p) ==
  LET price == ret.quote[p.side]
      Hit(rec) == IF rec # NoExit THEN <<rec.action>> ELSE << >>
  IN  Hit(checkTakeProfit(p, price)) \o Hit(checkStopLoss(p, price))
        \o Hit(checkScaleOut(ret.levels, p, price))
        \o Hit(checkTimeDecay(p, ret.remainingMinutes))

\* the actions recommended for position p in the cycle ret describes
RecommendedFor(p) ==
  LET ForP(exit) == exit.position.tradeId = p.tradeId
      mine == SelectSeq(ret.exits, ForP)
  IN  [i \in 1..Len(mine) |-> mine[i].rec.action]

\* C12: in a cycle every open position gets at most one exit recommendation, that
\* of the first rule that matches in the order take-profit, stop-loss, scale-out
\* ladder, time decay; a position that no rule matches gets none.
ExitPriorityOrder ==
  ret.op = "processExits" =>
    \A i \in 1..Len(ret.positions) :
       RecommendedFor(ret.positions[i]) =
         (IF RulesMatching(ret.positions[i]) = << >> THEN << >>
          ELSE << Head(RulesMatching(ret.positions[i])) >>)

\* a cycle over two positions in which two rules matched one position (take-profit
\* and the ladder, or the ladder and time decay) and only the higher was recommended
ExitPriorityOrderWitness ==
  /\ ret.op = "processExits"
  /\ \E i \in 1..Len(ret.positions) :
       /\ Len(RulesMatching(ret.positions[i])) >= 2
       /\ RulesMatching(ret.positions[i])[2] \in {"SCALE_OUT", "TIME_DECAY"}
       /\ RecommendedFor(ret.positions[i]) = << Head(RulesMatching(ret.positions[i])) >>
       /\ Len(ret.positions) >= 2

\* no take-profit, stop-loss or ladder rule matches position p in the cycle ret
\* describes
OnlyTimeCanMatch(p) ==
  /\ checkTakeProfit(p, ret.quote[p.side]) = NoExit
  /\ checkStopLoss(p, ret.quote[p.side]) = NoExit
  /\ checkScaleOut(ret.levels, p, ret.quote[p.side]) = NoExit

\* the exits recommended for position p in the cycle ret describes
ExitsFor(p) ==
  LET ForP(exit) == exit.position.tradeId = p.tradeId IN SelectSeq(ret.exits, ForP)

\* C23: in a cycle with at most 1 minute remaining, a position that no
\* take-profit, stop-loss or ladder rule matches is recommended a full close by
\* the time-decay rule, whatever its scaledOutPercent.
LastMinuteFullClose ==
  (ret.op = "processExits" /\ ret.remainingMinutes <= 1) =>
    \A i \in 1..Len(ret.positions) :
       OnlyTimeCanMatch(ret.positions[i]) =>
         /\ Len(ExitsFor(ret.positions[i])) = 1
         /\ ExitsFor(ret.positions[i])[1].rec.action = "TIME_DECAY"
         /\ ExitsFor(ret.positions[i])[1].rec.recommendation = "close"

\* the time-decay thresholds in force with remainingMinutes left
ThresholdsInForce(remainingMinutes) ==
  {TimeDecay.thresholds[k] : k \in {j \in 1..Len(TimeDecay.thresholds) :
                                      remainingMinutes <= TimeDecay.thresholds[j].timeLeftMin}}

\* the open positions of the engine with the tradeId of p
StillOpen(p) == {engine.positions[k] : k \in {j \in 1..Len(engine.positions) :
                                                engine.positions[j].tradeId = p.tradeId}}

\* C24: a time-decay exit is recommended to a position exactly when a threshold in
\* force has a cumulative target T above the position's scaledOutPercent s; its
\* reduction is T - s for such a threshold, and after the exit has executed the
\* position's scaledOutPercent is T (the position is closed when T is 1).
TimeDecayCumulativeTarget ==
  ret.op = "processExits" =>
    \A i \in 1..Len(ret.positions) :
       LET p == ret.positions[i]
           below == {th \in ThresholdsInForce(ret.remainingMinutes) :
                       FLt(p.scaledOutPercent, th.reduceBy)}
           decays == SelectSeq(ExitsFor(p), LAMBDA exit : exit.rec.action = "TIME_DECAY")
       IN  /\ OnlyTimeCanMatch(p) => (Len(decays) = 1 <=> below # {})
           /\ \A k \in 1..Len(decays) :
                 \E th \in below :
                    /\ decays[k].rec.reduceBy = FSub(th.reduceBy, p.scaledOutPercent)
                    /\ IF FGe(th.reduceBy, Z(1)) THEN StillOpen(p) = {}
                       ELSE \A q \in StillOpen(p) : q.scaledOutPercent = th.reduceBy

\* a position that the ladder had scaled out by 0.33 was reduced by 0.17 at the
\* 3-minute threshold and stands at 0.50
TimeDecayCumulativeTargetWitness ==
  /\ ret.op = "processExits"
  /\ \E i \in 1..Len(ret.positions) :
        /\ ret.positions[i].scaledOutPercent = Pct(33)
        /\ Len(ExitsFor(ret.positions[i])) = 1
        /\ ExitsFor(ret.positions[i])[1].rec.action = "TIME_DECAY"
        /\ ExitsFor(ret.positions[i])[1].rec.reduceBy = Pct(17)
        /\ \E q \in StillOpen(ret.positions[i]) : q.scaledOutPercent = Pct(50)

\* C15: along closes and scale-outs maxDrawdown never decreases and is the largest
\* (peakBalance - balance) / peakBalance over all balance points so far, in the
\* engine's stats and in the SessionState that records the engine's trades.
MaxDrawdownIsRunningMax ==
  [][/\ FGe(engine'.stats.maxDrawdown, engine.stats.maxDrawdown)
     /\ FGe(session'.maxDrawdown, session.maxDrawdown)
     /\ engine'.stats.maxDrawdown =
          DrawdownOver(engine'.closedTrades, InitialBalance, InitialBalance, Z(0))
     /\ session'.maxDrawdown =
          DrawdownOver(engine'.closedTrades, InitialBalance, InitialBalance, Z(0))]_vars

\* after a scale-out and a close the largest drawdown is behind: balance has
\* recovered above the point where maxDrawdown was set
MaxDrawdownIsRunningMaxWitness ==
  /\ FGt(engine.stats.maxDrawdown, Z(0))
  /\ FGt(session.maxDrawdown, session.currentDrawdown)
  /\ FGt(engine.stats.maxDrawdown, DrawdownOf(engine.stats.peakBalance, engine.balance))
  /\ \E i, j \in 1..Len(engine.closedTrades) :
        /\ engine.closedTrades[i].status = "PARTIAL_CLOSE"
        /\ engine.closedTrades[j].status = "CLOSED"

----------------------------------------------------------------------------
(* PerformanceTracker under recorded outcomes (specification SpecPerf).  An   *)
(* outcome history is a sequence of wins and losses that changes between the  *)
(* two at most MaxSwitches times, long enough to overflow the rolling window. *)

MaxOutcomes == 22
MaxSwitches == 2
MaxNewcomerOutcomes == 1

\* MACD has a history from the constructor, AGGREGATED gets one on its first outcome
PerfStrategies == {"MACD", "AGGREGATED"}

OutcomesOf(o, strategyName) ==
  IF strategyName \in DOMAIN o.outcomes THEN o.outcomes[strategyName] ELSE << >>

Switches(s) == Cardinality({i \in 1..(Len(s) - 1) : s[i] # s[i + 1]})

\* the last k elements of s, all of s when it is shorter
LastOf(s, k) == IF Len(s) <= k THEN s ELSE SubSeq(s, Len(s) - k + 1, Len(s))

\* performanceTracker.recordOutcome(strategyName, won, pnl)
PerfRecordOutcome ==
  \E strategyName \in PerfStrategies, won \in BOOLEAN :
    /\ Len(OutcomesOf(obs, strategyName)) <
         (IF strategyName = "MACD" THEN MaxOutcomes ELSE MaxNewcomerOutcomes)
    /\ Switches(Append(OutcomesOf(obs, strategyName), won)) <= MaxSwitches
    /\ perf' = Perf_recordOutcome(perf, strategyName, won, IF won THEN Z(35) ELSE Z(-35))
    /\ obs' = [obs EXCEPT !.outcomes =
                 [n \in (DOMAIN obs.outcomes) \cup {strategyName} |->
                    IF n = strategyName THEN Append(OutcomesOf(obs, strategyName), won)
                    ELSE obs.outcomes[n]]]
    /\ ret' = None
    /\ UNCHANGED <<engine, tracker, session, agg, trader, now>>

\* performanceTracker.getStrategyWeight(strategyName)
PerfGetStrategyWeight ==
  \E strategyName \in PerfStrategies :
    /\ ret' = [op |-> "getStrategyWeight", strategyName |-> strategyName,
               value |-> Perf_getStrategyWeight(perf, strategyName)]
    /\ UNCHANGED <<engine, tracker, session, agg, trader, perf, now, obs>>

NextPerf ==
  \/ PerfRecordOutcome
  \/ PerfGetStrategyWeight

SpecPerf == InitEngine /\ [][NextPerf]_vars

\* C21: getStrategyWeight returns a value within weightRange, and exactly
\* defaultWeight for a strategy with fewer than minTradesForWeighting outcomes in
\* its window.
WeightWithinRange ==
  ret.op = "getStrategyWeight" =>
    /\ FGe(ret.value, WeightRange[1])
    /\ FLe(ret.value, WeightRange[2])
    /\ Len(LastOf(OutcomesOf(obs, ret.strategyName), WindowSize)) < MinTradesForWeighting
         => ret.value = DefaultWeight

\* the weight of a full window of losses is the lower end of the range, after a
\* default weight was returned for a strategy that has a losing sample too small
WeightWithinRangeWitness ==
  /\ ret.op = "getStrategyWeight"
  /\ ret.strategyName = "MACD"
  /\ ret.value = WeightRange[1]
  /\ Len(OutcomesOf(obs, "MACD")) >= WindowSize
  /\ OutcomesOf(obs, "AGGREGATED") = << FALSE >>
  /\ Perf_getStrategyWeight(perf, "AGGREGATED") = DefaultWeight

\* C27: after n recordOutcome calls for a strategy its rolling window holds the
\* most recent min(n, windowSize) outcomes in arrival order, and the lifetime
\* totals count all n with wins + losses = totalTrades.
RollingWindowKeepsLatest ==
  \A name \in DOMAIN obs.outcomes :
     LET history == perf.strategyHistory[name]
         all == obs.outcomes[name]
     IN  /\ history.trades = LastOf(all, WindowSize)
         /\ Len(history.trades) = (IF Len(all) < WindowSize THEN Len(all) ELSE WindowSize)
         /\ history.totalTrades = Len(all)
         /\ history.wins = Cardinality({i \in 1..Len(all) : all[i]})
         /\ history.wins + history.losses = history.totalTrades

\* more outcomes than the window holds, the evicted ones wins and the window all
\* losses
RollingWindowKeepsLatestWitness ==
  /\ "MACD" \in DOMAIN obs.outcomes
  /\ Len(obs.outcomes["MACD"]) > WindowSize
  /\ obs.outcomes["MACD"][1]
  /\ perf.strategyHistory["MACD"].trades = [i \in 1..WindowSize |-> FALSE]
  /\ perf.strategyHistory["MACD"].wins = Len(obs.outcomes["MACD"]) - WindowSize

----------------------------------------------------------------------------
(* SpecRouter: the RegimeRouter applied to sub-lists of the strategies the  *)
(* all-day trader constructs, in every regime of the routing table          *)

\* this.strategies of AllDayTrader, by strategy name
TraderStrategies ==
  << "MACD", "MOMENTUM", "VOLATILITY_BREAKOUT", "ORB", "VOLUME_PROFILE", "SR_FLIP",
     "PRICE_ACTION", "TREND_CONFIRM", "EMA_CROSS" >>

NamesOf(s) == {s[i] : i \in 1..Len(s)}

SubList(names) ==
  LET Keep(n) == n \in names
  IN  SelectSeq(TraderStrategies, Keep)

RouterFilterStrategies ==
  /\ \E names \in SUBSET NamesOf(TraderStrategies), regime \in Regimes :
       ret' = [op |-> "filterStrategies", strategies |-> SubList(names), regime |-> regime,
               value |-> filterStrategies(SubList(names), regime)]
  /\ UNCHANGED << engine, tracker, session, agg, trader, perf, now, obs >>

NextRouter == RouterFilterStrategies

SpecRouter == InitEngine /\ [][NextRouter]_vars

\* the eligibility rule read from the regime's lists alone
ListedEligible(strategyName, regime) ==
  LET config == RoutingConfig(regime)
  IN  IF strategyName \in config.disabled THEN FALSE
      ELSE IF config.enabled # {} THEN strategyName \in config.enabled
      ELSE TRUE

\* C28: the strategies the router returns as eligible are exactly those the
\* regime's lists admit: none on the disabled list, and, the enabled list
\* being non-empty, exactly the offered strategies that are on it.
EligibleExactlyAsListed ==
  ret.op = "filterStrategies" =>
    NamesOf(ret.value) = {n \in NamesOf(ret.strategies) : ListedEligible(n, ret.regime)}

\* C29: the signals an aggregated decision is computed from number at most one
\* per strategy, and each comes from a strategy that was passed in, is eligible
\* in the regime (compatible and admitted by the routing table), returned true
\* from canTrade() in this cycle and produced a signal whose confidence before
\* the regime boost was at least minConfidence.
OnlyGatedSignalsCollected ==
  ret.op = "aggregate" =>
    /\ \A i, j \in 1..Len(ret.allSignals) :
          ret.allSignals[i].strategyName = ret.allSignals[j].strategyName => i = j
    /\ \A i \in 1..Len(ret.allSignals) :
          LET n == ret.allSignals[i].strategyName
          IN  /\ n \in NamesOf(StrategyList)
              /\ ret.regime \in RegimeCompatibility(n)
              /\ ListedEligible(n, ret.regime)
              /\ ret.analysis[n].ready
              /\ ret.analysis[n].signal # NoSignal
              /\ FGe(ret.analysis[n].signal.confidence, MinConfidence)
              /\ ret.allSignals[i].side = ret.analysis[n].signal.side

\* one strategy contributes while the other, ready and signalling above the
\* floor, is left out because the regime does not admit it
OnlyGatedSignalsCollectedWitness ==
  /\ ret.op = "aggregate"
  /\ ret.action = "ENTER"
  /\ Len(ret.allSignals) = 1
  /\ \E n \in NamesOf(StrategyList) :
        /\ n # ret.allSignals[1].strategyName
        /\ ret.analysis[n].ready
        /\ ret.analysis[n].signal # NoSignal
        /\ FGe(ret.analysis[n].signal.confidence, MinConfidence)
        /\ ~ListedEligible(n, ret.regime)

----------------------------------------------------------------------------
(* SpecScenario: aggregate over MACD and MOMENTUM signalling at 0.65 and    *)
(* 0.70, after MACD outcomes were recorded in the performance tracker; the  *)
(* trader never calls updateLivePerformance, so the weights are the         *)
(* tracker's                                                                *)

MaxScenarioOutcomes == 10

ScenarioOutputs ==
  [ready : {TRUE},
   signal : {[side |-> "UP", confidence |-> Pct(70)],
             [side |-> "UP", confidence |-> Pct(65)],
             [side |-> "DOWN", confidence |-> Pct(65)]}]

\* performanceTracker.recordOutcome("MACD", won, pnl) after a resolution
ScenarioRecordOutcome ==
  \E won \in BOOLEAN :
    /\ Len(OutcomesOf(obs, "MACD")) < MaxScenarioOutcomes
    /\ Switches(Append(OutcomesOf(obs, "MACD"), won)) <= MaxSwitches
    /\ perf' = Perf_recordOutcome(perf, "MACD", won, IF won THEN Z(35) ELSE Z(-35))
    /\ obs' = [obs EXCEPT !.outcomes =
                 [n \in (DOMAIN obs.outcomes) \cup {"MACD"} |->
                    IF n = "MACD" THEN Append(OutcomesOf(obs, "MACD"), won)
                    ELSE obs.outcomes[n]]]
    /\ ret' = None
    /\ UNCHANGED <<engine, tracker, session, agg, trader, now>>

ScenarioAggregate ==
  \E analysis \in [Strategies -> ScenarioOutputs], regime \in AggRegimes :
    /\ ret' = [op |-> "aggregate", analysis |-> analysis, regime |-> regime]
                 @@ aggregate(agg, perf, StrategyList, analysis, regime)
    /\ UNCHANGED <<engine, tracker, session, agg, trader, perf, now, obs>>

NextScenario ==
  \/ ScenarioRecordOutcome
  \/ ScenarioAggregate

SpecScenario == InitEngine /\ [][NextScenario]_vars

\* the scenario's inputs: TREND_UP, MOMENTUM UP at 0.70 with weight 1.0, MACD UP
\* at 0.65 with weight 1.2
ScenarioInputs ==
  /\ ret.op = "aggregate"
  /\ ret.regime = "TREND_UP"
  /\ ret.analysis["MOMENTUM"] =
       [ready |-> TRUE, signal |-> [side |-> "UP", confidence |-> Pct(70)]]
  /\ ret.analysis["MACD"] =
       [ready |-> TRUE, signal |-> [side |-> "UP", confidence |-> Pct(65)]]
  /\ getStrategyWeight(agg, perf, "MOMENTUM") = Z(1)
  /\ getStrategyWeight(agg, perf, "MACD") = Frac(6, 5)

\* C30: in regime TREND_UP, with MOMENTUM signalling UP at 0.70 under weight 1.0
\* and MACD signalling UP at 0.65 under weight 1.2 and nothing else, aggregate
\* collects MOMENTUM at 0.75 (the +0.05 boost) and MACD at 0.65 and returns ENTER
\* with side UP, conflictLevel 0 and strength GOOD.
ScenarioEntersUpGood ==
  ScenarioInputs =>
    /\ ret.action = "ENTER"
    /\ ret.side = "UP"
    /\ ret.conflictLevel = Z(0)
    /\ ret.strength = "GOOD"
    /\ ret.allSignals =
         << [strategyName |-> "MACD", side |-> "UP", confidence |-> Pct(65),
             weight |-> Frac(6, 5)],
            [strategyName |-> "MOMENTUM", side |-> "UP", confidence |-> Pct(75),
             weight |-> Z(1)] >>

\* the scenario occurred: seven of MACD's ten recorded outcomes were wins
ScenarioEntersUpGoodWitness ==
  /\ ScenarioInputs
  /\ ret.action = "ENTER"
  /\ ret.strength = "GOOD"
  /\ Len(OutcomesOf(obs, "MACD")) = 10

\* C31: in the scenario of C30 the aggregated confidence is approximately 0.78,
\* taken as within 0.01 of it.
ScenarioConfidenceAbout78 ==
  (ScenarioInputs /\ ret.action = "ENTER") =>
    /\ FGe(ret.confidence, Pct(77))
    /\ FLe(ret.confidence, Pct(79))

\* C32: recordTrade adds one to tradesExecuted and, for a win, one to tradesWon
\* and consecutiveWins while setting consecutiveLosses to 0 (for a loss the
\* other way round); after every step at most one of consecutiveWins and
\* consecutiveLosses is non-zero and tradesExecuted = tradesWon + tradesLost.
RecordTradeCounters ==
  [][/\ ret'.op = "recordTrade" =>
          /\ session'.tradesExecuted = session.tradesExecuted + 1
          /\ IF ret'.won
             THEN /\ session'.tradesWon = session.tradesWon + 1
                  /\ session'.tradesLost = session.tradesLost
                  /\ session'.consecutiveWins = session.consecutiveWins + 1
                  /\ session'.consecutiveLosses = 0
             ELSE /\ session'.tradesLost = session.tradesLost + 1
                  /\ session'.tradesWon = session.tradesWon
                  /\ session'.consecutiveLosses = session.consecutiveLosses + 1
                  /\ session'.consecutiveWins = 0
     /\ session'.consecutiveWins = 0 \/ session'.consecutiveLosses = 0
     /\ session'.tradesExecuted = session'.tradesWon + session'.tradesLost]_vars

\* a loss recorded right after two wins in a row
RecordTradeCountersWitness ==
  /\ ret.op = "recordTrade"
  /\ ~ret.won
  /\ session.consecutiveLosses = 1
  /\ session.consecutiveWins = 0
  /\ session.tradesWon = 2
  /\ session.tradesExecuted = 3

\* the record closedTrades gained for tradeId in this step
ClosedRecordOf(before, after, tradeId) ==
  LET added == SubSeq(after, Len(before) + 1, Len(after))
      HasId(t) == t.tradeId = tradeId /\ t.status = "CLOSED"
  IN  SelectSeq(added, HasId)

AvailableBalanceNonNegative ==
  FGe(FSub(engine.balance, SumSeq(engine.positions, PosSize)), Z(0))

\* everything left after a lost position is tied up in the position still open
AvailableBalanceNonNegativeWitness ==
  /\ Len(engine.positions) = 1
  /\ engine.positions[1].size = engine.balance
  /\ Len(engine.closedTrades) = 1
  /\ FLt(engine.closedTrades[1].pnl, Z(0))

\* C35: every open engine position holds its size at open times
\* (1 - scaledOutPercent), whatever scale-outs it went through.
SizeMatchesScaledOutPercent ==
  \A i \in 1..Len(engine.positions) :
     engine.positions[i].size
       = FMul(ExitSize, FSub(Z(1), engine.positions[i].scaledOutPercent))

----------------------------------------------------------------------------
(* SpecEmergency: the session of SpecRisk with emergency stops; obs.emergency *)
(* holds from a triggerEmergencyStop until the next reset                     *)

RiskTriggerEmergencyStop ==
  \E reason \in EmergencyTexts :
    /\ session' = triggerEmergencyStop(session, reason, now)
    /\ obs' = [obs EXCEPT !.emergency = TRUE]
    /\ ret' = None
    /\ UNCHANGED now
    /\ OthersIdleR

NextEmergency ==
  \/ RiskTriggerEmergencyStop
  \/ SessRecordTrade
  \/ Tick
  \/ RiskCanTradeCall
  \/ SessResetCall

SpecEmergency == InitRisk /\ [][NextEmergency]_vars

\* C36: from a triggerEmergencyStop, whatever its reason text, until reset() is
\* called, every canTrade() returns false.
EmergencyStopSticks ==
  (obs.emergency /\ ret.op = "canTrade") => ~ret.value

----------------------------------------------------------------------------
(* SpecAccounts: the strategy accounts under opens of more than half the    *)
(* starting balance on two markets, early exits and resolutions             *)

MaxAccountOps == 4

AccountSizes == {Z(300)}

AccOpenPosition ==
  \E strategyName \in Strategies, side \in Sides, entryPrice \in EntryPrices,
     marketId \in Markets, size \in AccountSizes :
    /\ Tracker_ops(tracker) < MaxAccountOps
    /\ tracker' = Tracker_openPosition(tracker, strategyName, side, entryPrice, size,
                                       marketId).trk
    /\ ret' = None
    /\ UNCHANGED <<engine, session, agg, trader, perf, now, obs>>

\* an early exit at a share price
AccClosePosition ==
  \E strategyName \in Strategies, tradeId \in 1..MaxAccountOps,
     exitPrice \in SharePrices, exitReason \in ExitReasons :
    /\ Tracker_ops(tracker) < MaxAccountOps
    /\ tracker' = Tracker_closePosition(tracker, strategyName, tradeId, exitPrice,
                                        exitReason, "null").trk
    /\ ret' = None
    /\ UNCHANGED <<engine, session, agg, trader, perf, now, obs>>

AccCloseAllForMarket ==
  \E marketId \in Markets, outcome \in Sides :
    /\ LET r == Tracker_closeAllForMarket(tracker, marketId, outcome)
       IN  /\ Tracker_ops(r.trk) <= MaxAccountOps
           /\ tracker' = r.trk
    /\ ret' = [op |-> "Tracker.closeAllForMarket", marketId |-> marketId,
               outcome |-> outcome]
    /\ UNCHANGED <<engine, session, agg, trader, perf, now, obs>>

NextAccounts ==
  \/ AccOpenPosition
  \/ AccClosePosition
  \/ AccCloseAllForMarket

SpecAccounts == InitEngine /\ [][NextAccounts]_vars

\* C37: no strategy account's balance ever drops below 0.
AccountBalanceNonNegative ==
  \A n \in DOMAIN tracker.strategies : FGe(tracker.strategies[n].balance, Z(0))

\* C38: every ENTER decision of aggregate has its confidence within
\* [minConfidence, maxConfidence] and strength STRONG, GOOD or WEAK, never
\* INSUFFICIENT.
EnterConfidenceAndStrength ==
  (ret.op = "aggregate" /\ ret.action = "ENTER") =>
    /\ FGe(ret.confidence, MinConfidence)
    /\ FLe(ret.confidence, MaxConfidence)
    /\ ret.strength \in {"STRONG", "GOOD", "WEAK"}

\* an ENTER whose confidence after the conflict penalty fell below minConfidence
\* and was raised to it
EnterConfidenceAndStrengthWitness ==
  /\ ret.op = "aggregate"
  /\ ret.action = "ENTER"
  /\ ret.confidence = MinConfidence
  /\ ret.strength = "WEAK"
  /\ FGt(ret.conflictLevel, Z(0))
  /\ \A i \in 1..Len(ret.allSignals) :
        ret.allSignals[i].side = ret.side =>
          FLt(FSub(ret.allSignals[i].confidence, FMul(ret.conflictLevel, Frac(1, 2))),
              MinConfidence)

----------------------------------------------------------------------------
(* SpecLastMinute: positions opened and cycled as in SpecExits, then the     *)
(* market's last minute, in which the polling loop keeps running             *)
(* processExits with a non-zero quote and at most 1 minute left.  `now`      *)
(* counts the cycles run in the last minute; obs.lastMinute marks it.        *)

LastMinuteRemaining == {1, 0}

MaxEarlierOps == 2

LmOpen == ~obs.lastMinute /\ EngOps(engine) < MaxEarlierOps /\ ExOpen

LmCycle == ~obs.lastMinute /\ EngOps(engine) < MaxEarlierOps /\ ExCycle

LmBegin ==
  /\ ~obs.lastMinute
  /\ obs' = [obs EXCEPT !.lastMinute = TRUE]
  /\ ret' = None
  /\ UNCHANGED <<engine, tracker, session, agg, trader, perf, now>>

LmLastCycle ==
  \E quote \in CycleQuotes, remainingMinutes \in LastMinuteRemaining :
    /\ obs.lastMinute
    /\ Len(engine.positions) > 0
    /\ ExitsDone(processExits(trader.scaledOutLevels, engine, quote, remainingMinutes),
                 engine.positions, trader.scaledOutLevels, quote, remainingMinutes,
                 ExitsOf(trader.scaledOutLevels, engine.positions, quote,
                         remainingMinutes))
    /\ now' = now + 1
    /\ UNCHANGED <<tracker, agg, perf>>

NextLastMinute ==
  \/ LmOpen
  \/ LmCycle
  \/ LmBegin
  \/ LmLastCycle

SpecLastMinute == InitEngine /\ [][NextLastMinute]_vars

\* C40: once the remaining time stays at or below 1 minute, with a non-zero
\* quote on every cycle, an engine position stays open for at most three
\* processExits cycles (the 1.5x ladder level, the 3-minute reduction, the
\* close): after the third cycle of the last minute no position is open,
\* whatever was scaled out or fired before.
LastMinuteClosesAll ==
  (obs.lastMinute /\ Len(engine.positions) > 0) => now < 3

\* a position that needed all three cycles: the 1.5x ladder level, the 3-minute
\* reduction to 0.50, then the full close
LastMinuteClosesAllWitness ==
  /\ obs.lastMinute
  /\ now = 3
  /\ Len(engine.positions) = 0
  /\ Len(engine.closedTrades) = 3
  /\ engine.closedTrades[1].status = "PARTIAL_CLOSE"
  /\ engine.closedTrades[2].status = "PARTIAL_CLOSE"
  /\ engine.closedTrades[3].status = "CLOSED"
  /\ engine.closedTrades[3].exitReason = "TIME_DECAY"

============================================================================
